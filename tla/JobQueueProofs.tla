--------------------------- MODULE JobQueueProofs ---------------------------
(***************************************************************************)
(* Safety of JobQueue for every finite set of jobs, every number of        *)
(* processes and pool clients, and every bound on faults and executions:   *)
(* the queue's invariant, that a job which has ended is left alone, and    *)
(* that the queue implements JobLifecycle.                                 *)
(***************************************************************************)
EXTENDS JobQueue, FiniteSetTheorems, TLAPS

-----------------------------------------------------------------------------
(* The executions thrown out by handlers that reject without a reason.     *)
LEMMA ThrownOutFinite ==
  ASSUME TypeOK
  PROVE  IsFiniteSet(ThrownOut) /\ Cardinality(ThrownOut) \in Nat
<1>1. reasonless \subseteq Job /\ losses \in [Job -> Nat]
  BY ReasonlessAssumption DEF TypeOK
<1>2. IsFiniteSet(reasonless \ garbled)
  BY <1>1, JobAssumption, FS_Subset
<1>3. ASSUME NEW k \in reasonless \ garbled PROVE IsFiniteSet({k} \X (1 .. losses[k]))
  <2>1. losses[k] \in Int /\ 1 \in Int
    BY <1>1
  <2> QED BY <2>1, FS_Singleton, FS_Interval, FS_Product
<1> DEFINE T == {{k} \X (1 .. losses[k]) : k \in reasonless \ garbled}
<1>4. IsFiniteSet(T)
  <2> HIDE DEF T
  <2>1. T = {{k} \X (1 .. losses[k]) : k \in reasonless \ garbled}
    BY DEF T
  <2> DEFINE f == [k \in reasonless \ garbled |-> {k} \X (1 .. losses[k])]
  <2>2. f \in Surjection(reasonless \ garbled, T)
    BY <2>1 DEF Surjection
  <2> QED BY <2>2, <1>2, FS_Surjection
<1>5. IsFiniteSet(UNION T)
  BY <1>3, <1>4, FS_UNION
<1> QED BY <1>5, FS_CardinalityType DEF ThrownOut

LEMMA ThrownOutGrows ==
  ASSUME TypeOK, TypeOK', given' = given,
         \A j \in Job : losses'[j] >= losses[j]
  PROVE  /\ Cardinality(ThrownOut') >= Cardinality(ThrownOut)
         /\ \A k \in reasonless \ garbled :
              losses'[k] > losses[k] =>
                 Cardinality(ThrownOut') >= Cardinality(ThrownOut) + 1
<1>1. /\ reasonless \subseteq Job
      /\ reasonless' = reasonless /\ garbled' = garbled
      /\ losses \in [Job -> Nat] /\ losses' \in [Job -> Nat]
  BY ReasonlessAssumption DEF TypeOK, given
<1>2. /\ IsFiniteSet(ThrownOut) /\ Cardinality(ThrownOut) \in Nat
      /\ IsFiniteSet(ThrownOut') /\ Cardinality(ThrownOut') \in Nat
  <2>1. IsFiniteSet(ThrownOut)' /\ (Cardinality(ThrownOut) \in Nat)'
    BY ThrownOutFinite, PTL
  <2> QED BY <2>1, ThrownOutFinite
<1>3. ThrownOut \subseteq ThrownOut'
  BY <1>1 DEF ThrownOut
<1>4. ASSUME NEW k \in reasonless \ garbled, losses'[k] > losses[k]
      PROVE  Cardinality(ThrownOut') >= Cardinality(ThrownOut) + 1
  <2>1. <<k, losses'[k]>> \in ThrownOut' /\ <<k, losses'[k]>> \notin ThrownOut
    BY <1>1, <1>4 DEF ThrownOut
  <2>2. ThrownOut # ThrownOut'
    BY <2>1
  <2>3. /\ Cardinality(ThrownOut) <= Cardinality(ThrownOut')
        /\ Cardinality(ThrownOut) # Cardinality(ThrownOut')
    BY <1>2, <1>3, <2>2, FS_Subset
  <2> QED BY <1>2, <2>3
<1>5. Cardinality(ThrownOut') >= Cardinality(ThrownOut)
  BY <1>2, <1>3, FS_Subset
<1> QED BY <1>4, <1>5

-----------------------------------------------------------------------------
(* Types.                                                                  *)
LEMMA InitTypes == Init => TypeOK
<1>1. (CHOOSE j \in Job : TRUE) \in Job
  BY JobAssumption
<1> QED
  BY <1>1, BoundsAssumption DEF Init, TypeOK, Row, NoRows, Terminal

(* What is written to a row.                                               *)
LEMMA RowTypes ==
  ASSUME NEW r \in Row
  PROVE  /\ [r EXCEPT !.due = TRUE] \in Row
         /\ MarkFailed(r) \in Row
         /\ \A n \in Nat :
              MarkDone(r, n) \in Row /\ RetryOrDie(r, n) \in Row
  BY DEF Row, MarkFailed, MarkDone, RetryOrDie, Terminal

(* One row of an open batch is written.                                    *)
LEMMA Write ==
  ASSUME TypeOK, NEW b \in Batch, NEW j \in DOMAIN tx[b], NEW r \in Row,
         tx' = [tx EXCEPT ![b][j] = r]
  PROVE  /\ tx' = [d \in Batch |-> tx'[d]]
         /\ \A d \in Batch : d # b => tx'[d] = tx[d]
         /\ tx'[b] \in [DOMAIN tx'[b] -> Row]
         /\ DOMAIN tx'[b] = DOMAIN tx[b]
         /\ \A k \in DOMAIN tx[b] : tx'[b][k] = IF k = j THEN r ELSE tx[b][k]
<1>1. DOMAIN tx = Batch /\ tx[b] \in [DOMAIN tx[b] -> Row]
  BY DEF TypeOK
<1>2. tx' = [tx EXCEPT ![b] = [tx[b] EXCEPT ![j] = r]]
  OBVIOUS
<1>3. tx'[b] = [tx[b] EXCEPT ![j] = r]
  BY <1>1, <1>2
<1> QED BY <1>1, <1>2, <1>3

(* The batches of D are rolled back.                                       *)
LEMMA NoRowsType == NoRows \in [DOMAIN NoRows -> Row] /\ DOMAIN NoRows = {}
  BY DEF NoRows

LEMMA RollBackTypes ==
  ASSUME TypeOK, NEW b \in Batch, RollBack(b) \/ SessionLost(b),
         cur' = cur, timers' = timers, handlers' = handlers,
         given' = given, ran' = ran,
         wins' \subseteq Job, losses' \in [Job -> Nat],
         faults' \in 0 .. MaxFaults
  PROVE  TypeOK'
  BY NoRowsType DEF TypeOK, RollBack, SessionLost, given

LEMMA OutcomeTypes ==
  ASSUME TypeOK, NEW j \in Job, Won(j) \/ Lost(j)
  PROVE  wins' \subseteq Job /\ losses' \in [Job -> Nat] /\ ran' = ran
  BY DEF TypeOK, Won, Lost

LEMMA FaultTypes ==
  TypeOK /\ Fault => faults' \in 0 .. MaxFaults /\ faults' = faults + 1
  BY BoundsAssumption DEF TypeOK, Fault

(* A batch writes the row j and stays open.                                *)
LEMMA WriteTypes ==
  ASSUME TypeOK, NEW b \in Batch, NEW j \in DOMAIN tx[b], NEW r \in Row,
         tx' = [tx EXCEPT ![b][j] = r], phase[b] \in {"open", "handling"},
         phase' = [phase EXCEPT ![b] = "open"],
         todo' \in {todo, [todo EXCEPT ![b] = @ \ {j}]},
         jobs' = jobs, cur' = cur, timers' = timers, handlers' = handlers,
         given' = given, ran' = ran,
         wins' \subseteq Job, losses' \in [Job -> Nat],
         faults' \in 0 .. MaxFaults
  PROVE  TypeOK'
<1>1. \A d \in Batch : todo'[d] \subseteq todo[d]
  BY DEF TypeOK
<1>2. todo' \in [Batch -> SUBSET Job]
  BY DEF TypeOK
<1> QED BY <1>1, <1>2, Write DEF TypeOK, given

LEMMA NextTypes == TypeOK /\ BatchesAreTrue /\ [Next]_vars => TypeOK'
<1> SUFFICES ASSUME TypeOK, BatchesAreTrue, [Next]_vars PROVE TypeOK'
  OBVIOUS
<1>1. ASSUME NEW j \in Job, Enqueue(j) \/ BecomeDue(j) PROVE TypeOK'
  <2>1. jobs' \in [Job -> Row]
    <3>1. PICK r \in Row : jobs' = [jobs EXCEPT ![j] = r]
      <4>1. CASE Enqueue(j)
        <5>1. PICK due \in BOOLEAN :
                jobs' = [jobs EXCEPT ![j] = [status |-> "pending", attempts |-> 0, due |-> due]]
          BY <4>1 DEF Enqueue
        <5> QED BY <5>1 DEF Row
      <4>2. CASE BecomeDue(j)
        <5>1. [jobs[j] EXCEPT !.due = TRUE] \in Row
          BY RowTypes DEF TypeOK
        <5> QED BY <4>2, <5>1 DEF BecomeDue, TypeOK
      <4> QED BY <1>1, <4>1, <4>2
    <3> QED BY <3>1 DEF TypeOK
  <2>2. UNCHANGED <<tx, worker, process, faults, history>>
    BY <1>1 DEF Enqueue, BecomeDue
  <2> QED BY <2>1, <2>2 DEF TypeOK, worker, process, given, history
<1>2. ASSUME NEW p \in Process, Start(p) \/ Stop(p) \/ \E j \in Job : Register(p, j)
      PROVE  TypeOK'
  <2>1. faults' \in 0 .. MaxFaults
    <3>1. CASE Start(p) \/ \E j \in Job : Register(p, j)
      <4>1. faults' = faults
        BY <3>1 DEF Start, Register
      <4> QED BY <4>1 DEF TypeOK
    <3>2. CASE Stop(p)
      BY <3>2, FaultTypes DEF Stop
    <3> QED BY <1>2, <3>1, <3>2
  <2>2. timers' \in [Process -> BOOLEAN] /\ handlers' \in [Process -> SUBSET Job]
    <3>1. CASE Start(p) \/ Stop(p)
      BY <3>1 DEF Start, Stop, TypeOK
    <3>2. ASSUME NEW j \in Job, Register(p, j)
          PROVE  timers' \in [Process -> BOOLEAN] /\ handlers' \in [Process -> SUBSET Job]
      BY <3>2 DEF Register, TypeOK
    <3> QED BY <1>2, <3>1, <3>2
  <2> QED
    BY <1>2, <2>1, <2>2 DEF Start, Stop, Register, TypeOK, table, worker, given, history
<1>3. ASSUME NEW p \in Process, Crash(p) PROVE TypeOK'
  BY <1>3, NoRowsType, FaultTypes DEF Crash, TypeOK, given, history
<1>4. ASSUME NEW b \in Batch, Poll(b) PROVE TypeOK'
  BY <1>4 DEF Poll, TypeOK, table, process, given, history
<1>5. ASSUME NEW b \in Batch, Claim(b) PROVE TypeOK'
  <2>1. PICK S \in SUBSET Claimable :
          /\ jobs' = jobs /\ tx' = [tx EXCEPT ![b] = Processing(S)]
          /\ todo' = [todo EXCEPT ![b] = S]
    BY <1>5 DEF Claim, TableAfterClaim
  <2>2. S \subseteq Job /\ DOMAIN Processing(S) = S /\ Processing(S) \in [S -> Row]
    BY DEF Claimable, Processing, TypeOK, Row
  <2> QED BY <1>5, <2>1, <2>2 DEF Claim, TypeOK, process, given, history
<1>6. ASSUME NEW b \in Batch, NEW j \in Job, NoHandler(b, j) PROVE TypeOK'
  <2>1. j \in DOMAIN tx[b] /\ tx[b][j] \in Row /\ phase[b] = "open"
    BY <1>6 DEF NoHandler, TypeOK
  <2>2. tx' = [tx EXCEPT ![b][j] = MarkFailed(tx[b][j])]
    BY <1>6, <2>1 DEF NoHandler, TypeOK
  <2>3. MarkFailed(tx[b][j]) \in Row
    BY <2>1, RowTypes
  <2>4. phase' = [phase EXCEPT ![b] = "open"]
    BY <1>6, <2>1 DEF NoHandler, TypeOK
  <2>5. wins' \subseteq Job /\ losses' \in [Job -> Nat] /\ ran' = ran
        /\ faults' \in 0 .. MaxFaults
    BY <1>6 DEF NoHandler, TypeOK, history
  <2> QED
    BY <1>6, <2>1, <2>2, <2>3, <2>4, <2>5, WriteTypes DEF NoHandler, process, given, history
<1>7. ASSUME NEW b \in Batch, NEW j \in Job, CallHandler(b, j) PROVE TypeOK'
  <2>1. ran' \in [Job -> 0 .. MaxRuns]
    BY <1>7, BoundsAssumption DEF CallHandler, TypeOK
  <2> QED BY <1>7, <2>1 DEF CallHandler, TypeOK, table, process, given
<1>8. ASSUME NEW b \in Batch, HandlerFulfils(b) \/ HandlerRejects(b) \/ DoneReplyLate(b)
      PROVE  TypeOK'
  <2> DEFINE j == cur[b]
             n == tx[b][j].attempts + 1
  <2>0. phase[b] = "handling" /\ j \in DOMAIN tx[b]
    BY <1>8 DEF HandlerFulfils, HandlerRejects, DoneReplyLate, BatchesAreTrue
  <2>1. tx[b][j] \in Row /\ n \in Nat /\ j \in Job
    BY <2>0 DEF TypeOK, Row
  <2>2. PICK r \in Row : tx' = [tx EXCEPT ![b][j] = r]
    <3>1. MarkDone(tx[b][j], n) \in Row /\ RetryOrDie(tx[b][j], n) \in Row
      BY <2>1, RowTypes
    <3>2. RetryOrDie(MarkDone(tx[b][j], n), n) \in Row
      BY <2>1, <3>1, RowTypes
    <3> QED
      BY <1>8, <2>1, <3>1, <3>2
      DEF HandlerFulfils, HandlerRejects, DoneReplyLate, TypeOK
  <2>3. faults' \in 0 .. MaxFaults
    BY <1>8, FaultTypes DEF HandlerFulfils, HandlerRejects, DoneReplyLate, TypeOK
  <2>4. wins' \subseteq Job /\ losses' \in [Job -> Nat] /\ ran' = ran
    BY <1>8, <2>1, OutcomeTypes DEF HandlerFulfils, HandlerRejects, DoneReplyLate
  <2> QED
    BY <1>8, <2>0, <2>2, <2>3, <2>4, WriteTypes
    DEF HandlerFulfils, HandlerRejects, DoneReplyLate, process, given
<1>9. ASSUME NEW b \in Batch, Commit(b) PROVE TypeOK'
  <2>1. jobs' \in [Job -> Row]
    BY <1>9 DEF Commit, TypeOK
  <2> QED BY <1>9, <2>1, NoRowsType DEF Commit, TypeOK, process, given, history
<1>10. ASSUME NEW b \in Batch, QueryFails(b) PROVE TypeOK'
  <2>1. wins' \subseteq Job /\ losses' \in [Job -> Nat]
    BY <1>10 DEF QueryFails, history, TypeOK
  <2> QED BY <1>10, <2>1, FaultTypes, RollBackTypes DEF QueryFails, process, given, history
<1>11. ASSUME NEW b \in Batch, OutcomeQueryFails(b) PROVE TypeOK'
  <2>1. cur[b] \in Job
    BY DEF TypeOK
  <2> QED
    BY <1>11, <2>1, FaultTypes, OutcomeTypes, RollBackTypes
    DEF OutcomeQueryFails, process, given
<1>12. ASSUME NEW b \in Batch, HandlerRejectsWithoutReason(b) PROVE TypeOK'
  <2>1. cur[b] \in Job /\ faults \in 0 .. MaxFaults
    BY DEF TypeOK
  <2> QED
    BY <1>12, <2>1, OutcomeTypes, RollBackTypes
    DEF HandlerRejectsWithoutReason, process, given
<1>13. ASSUME NEW b \in Batch, SessionLost(b) PROVE TypeOK'
  <2>1. wins' \subseteq Job /\ losses' \in [Job -> Nat]
    BY <1>13 DEF SessionLost, history, TypeOK
  <2> QED BY <1>13, <2>1, FaultTypes, RollBackTypes DEF SessionLost, process, given, history
<1>14. ASSUME NEW b \in Batch, ZombieEnds(b) PROVE TypeOK'
  <2>1. cur[b] \in Job
    BY DEF TypeOK
  <2> QED BY <1>14, <2>1, OutcomeTypes DEF ZombieEnds, TypeOK, table, process, given
<1>15. ASSUME NEW b \in Batch, NEW j \in Job, PayloadThrows(b, j) PROVE TypeOK'
  <2>1. j \in DOMAIN tx[b] /\ tx[b][j] \in Row /\ phase[b] = "open"
    BY <1>15 DEF PayloadThrows, TypeOK
  <2>2. PICK r : r = RetryOrDie(tx[b][j], tx[b][j].attempts + 1)
    OBVIOUS
  <2>3. tx' = [tx EXCEPT ![b][j] = r]
    BY <1>15, <2>1, <2>2 DEF PayloadThrows, TypeOK
  <2>4. r \in Row
    <3>1. tx[b][j].attempts + 1 \in Nat
      BY <2>1 DEF Row
    <3> QED BY <2>1, <2>2, <3>1, RowTypes
  <2>5. phase' = [phase EXCEPT ![b] = "open"]
    BY <1>15, <2>1 DEF PayloadThrows, TypeOK
  <2>6. wins' \subseteq Job /\ losses' \in [Job -> Nat] /\ ran' = ran
        /\ faults' \in 0 .. MaxFaults
    BY <1>15, OutcomeTypes DEF PayloadThrows, TypeOK
  <2> QED
    BY <1>15, <2>1, <2>3, <2>4, <2>5, <2>6, WriteTypes DEF PayloadThrows, process
<1>16. CASE UNCHANGED vars
  BY <1>16 DEF vars, table, worker, process, given, history, TypeOK
<1> QED
  BY <1>1, <1>2, <1>3, <1>4, <1>5, <1>6, <1>7, <1>8, <1>9, <1>10, <1>11, <1>12,
     <1>13, <1>14, <1>15, <1>16
  DEF Next, Settle

-----------------------------------------------------------------------------
(* The history, the faults and the thrown out executions only grow.        *)
Budget == faults + Cardinality(ThrownOut)

Grows ==
    /\ wins \subseteq wins'
    /\ \A j \in Job : losses'[j] >= losses[j]
    /\ Budget \in Nat /\ Budget' \in Nat /\ Budget' >= Budget

LEMMA GrowsIf ==
  ASSUME TypeOK, TypeOK', given' = given, faults' >= faults,
         \/ UNCHANGED <<wins, losses>>
         \/ \E k \in Job : Won(k) \/ Lost(k)
  PROVE  /\ Grows
         /\ faults' > faults => Budget' >= Budget + 1
         /\ \A k \in reasonless \ garbled : Lost(k) => Budget' >= Budget + 1
<1>1. wins \subseteq wins' /\ \A j \in Job : losses'[j] >= losses[j]
  BY DEF TypeOK, Won, Lost
<1>2. faults \in Nat /\ faults' \in Nat
  BY BoundsAssumption DEF TypeOK
<1>3. Cardinality(ThrownOut) \in Nat /\ Cardinality(ThrownOut') \in Nat
  <2>1. (Cardinality(ThrownOut) \in Nat)'
    BY ThrownOutFinite, PTL
  <2> QED BY <2>1, ThrownOutFinite
<1>4. Cardinality(ThrownOut') >= Cardinality(ThrownOut)
  BY <1>1, ThrownOutGrows
<1>5. ASSUME NEW k \in reasonless \ garbled, Lost(k)
      PROVE  Cardinality(ThrownOut') >= Cardinality(ThrownOut) + 1
  <2>1. losses'[k] > losses[k]
    BY <1>5, ReasonlessAssumption DEF Lost, TypeOK
  <2> QED BY <1>1, <2>1, ThrownOutGrows
<1> QED BY <1>1, <1>2, <1>3, <1>4, <1>5 DEF Grows, Budget

LEMMA NextGrows == TypeOK /\ TypeOK' /\ [Next]_vars => Grows
<1> SUFFICES ASSUME TypeOK, TypeOK', [Next]_vars PROVE Grows
  OBVIOUS
<1> USE GrowsIf
<1>0. faults \in Nat /\ \A b \in Batch : cur[b] \in Job
  BY BoundsAssumption DEF TypeOK
<1>1. ASSUME NEW j \in Job, Enqueue(j) \/ BecomeDue(j) PROVE Grows
  BY <1>0, <1>1 DEF Enqueue, BecomeDue, process, history
<1>2. ASSUME NEW p \in Process, Start(p) \/ Stop(p) \/ Crash(p)
      PROVE  Grows
  BY <1>0, <1>2 DEF Start, Stop, Crash, Fault, history
<1>3. ASSUME NEW p \in Process, NEW j \in Job, Register(p, j) PROVE Grows
  BY <1>0, <1>3 DEF Register, history
<1>4. ASSUME NEW b \in Batch, Poll(b) \/ Claim(b) \/ Commit(b) PROVE Grows
  BY <1>0, <1>4 DEF Poll, Claim, Commit, process, history
<1>5. ASSUME NEW b \in Batch, NEW j \in Job,
             NoHandler(b, j) \/ CallHandler(b, j) \/ PayloadThrows(b, j)
      PROVE  Grows
  BY <1>0, <1>5 DEF NoHandler, CallHandler, PayloadThrows, process, history
<1>6. ASSUME NEW b \in Batch, Settle(b) \/ DoneReplyLate(b) PROVE Grows
  BY <1>0, <1>6
  DEF Settle, HandlerFulfils, HandlerRejects, HandlerRejectsWithoutReason,
      DoneReplyLate, Fault, process
<1>7. ASSUME NEW b \in Batch,
             QueryFails(b) \/ OutcomeQueryFails(b) \/ SessionLost(b) \/ ZombieEnds(b)
      PROVE  Grows
  BY <1>0, <1>7
  DEF QueryFails, OutcomeQueryFails, SessionLost, ZombieEnds, Fault, process, history
<1>8. CASE UNCHANGED vars
  BY <1>0, <1>8 DEF vars, process, history
<1> QED BY <1>1, <1>2, <1>3, <1>4, <1>5, <1>6, <1>7, <1>8 DEF Next

-----------------------------------------------------------------------------
(* The inductive invariant: QueueSafety without what follows from the rest.*)
LocksDisjoint ==
    \A b, d \in Batch : b # d => DOMAIN tx[b] \cap DOMAIN tx[d] = {}

Core ==
    /\ TypeOK /\ NeverStranded /\ LocksDisjoint /\ OutcomesAreTrue
    /\ BatchesAreTrue /\ EveryRunCounted

(* What a handled row says is at most what MaxAttempts allows.             *)
LEMMA Reports ==
  ASSUME Core, NEW b \in Batch, NEW j \in DOMAIN tx[b]
  PROVE  /\ j \in Job /\ jobs[j] \in Row /\ tx[b][j] \in Row
         /\ jobs[j].status = "pending" /\ jobs[j].attempts < MaxAttempts
         /\ losses[j] >= jobs[j].attempts
         /\ j \in Unhandled(b) =>
              /\ tx[b][j] = [jobs[j] EXCEPT !.status = "processing"]
              /\ tx[b][j].status = "processing"
              /\ tx[b][j].attempts = jobs[j].attempts
         /\ j \notin Unhandled(b) =>
              /\ tx[b][j].status \in Terminal \cup {"pending"}
              /\ tx[b][j].status = "done" => j \in wins
              /\ tx[b][j].status = "failed" => tx[b][j].attempts = jobs[j].attempts
              /\ tx[b][j].status # "failed" => tx[b][j].attempts = jobs[j].attempts + 1
              /\ tx[b][j].status \in {"pending", "dead"} => losses[j] >= tx[b][j].attempts
              /\ tx[b][j].status = "dead" => tx[b][j].attempts = MaxAttempts
              /\ tx[b][j].status = "pending" => tx[b][j].attempts < MaxAttempts
<1>1. j \in Job /\ jobs[j] \in Row /\ tx[b][j] \in Row
  BY DEF Core, TypeOK
<1>2. jobs[j].status = "pending"
  BY DEF Core, BatchesAreTrue
<1>3. jobs[j].attempts < MaxAttempts /\ losses[j] >= jobs[j].attempts
  BY <1>1, <1>2 DEF Core, OutcomesAreTrue
<1>4. ASSUME j \in Unhandled(b)
      PROVE  /\ tx[b][j] = [jobs[j] EXCEPT !.status = "processing"]
             /\ tx[b][j].status = "processing"
             /\ tx[b][j].attempts = jobs[j].attempts
  <2>1. tx[b][j] = [jobs[j] EXCEPT !.status = "processing"]
    BY <1>4 DEF Core, BatchesAreTrue
  <2> QED BY <1>1, <2>1 DEF Row
<1>5. ASSUME j \notin Unhandled(b)
      PROVE  Lifecycle!May(j, tx[b][j].status, tx[b][j].attempts)
  BY <1>5 DEF Core, BatchesAreTrue
<1>6. jobs[j].attempts \in Nat /\ MaxAttempts \in Nat
  BY <1>1, AttemptsAssumption DEF Row
<1> QED BY <1>1, <1>2, <1>3, <1>4, <1>5, <1>6 DEF Lifecycle!May, Terminal

(* The number a locked row is charged with: no more than one execution     *)
(* beyond those committed, and no more than MaxAttempts.                   *)
Charge(b, j) == tx[b][j].attempts + IF j \in Unhandled(b) \ todo[b] THEN 1 ELSE 0

LEMMA Charges ==
  ASSUME Core, NEW b \in Batch, NEW j \in DOMAIN tx[b]
  PROVE  /\ Charge(b, j) \in Nat /\ Charge(b, j) <= jobs[j].attempts + 1
         /\ Charge(b, j) <= MaxAttempts /\ Counted(j, Charge(b, j))
<1> DEFINE n == tx[b][j].attempts
           u == j \in Unhandled(b)
<1>1. n \in Nat /\ jobs[j].attempts \in Nat /\ MaxAttempts \in Nat
  BY AttemptsAssumption DEF Core, TypeOK, Row
<1>2. jobs[j].attempts < MaxAttempts
  BY Reports
<1>3. u => n = jobs[j].attempts
  BY Reports
<1>4. ~u => n = jobs[j].attempts \/ n = jobs[j].attempts + 1
  BY Reports
<1>5. Counted(j, Charge(b, j))
  BY DEF Core, TypeOK, EveryRunCounted, Charge
<1>6. Charge(b, j) = n \/ (u /\ Charge(b, j) = n + 1)
  <2>1. CASE j \in Unhandled(b) \ todo[b]
    BY <1>1, <2>1 DEF Charge
  <2>2. CASE j \notin Unhandled(b) \ todo[b]
    <3>1. Charge(b, j) = n + 0
      BY <2>2 DEF Charge
    <3> QED BY <1>1, <3>1
  <2> QED BY <2>1, <2>2
<1> HIDE DEF n, u
<1> QED BY <1>1, <1>2, <1>3, <1>4, <1>5, <1>6

LEMMA CoreSuffices == Core /\ GarbledNeverRun => QueueSafety
<1> SUFFICES ASSUME Core, GarbledNeverRun PROVE QueueSafety
  OBVIOUS
<1>1. OneOwner
  BY DEF Core, OneOwner, LocksDisjoint, BatchesAreTrue
<1>2. ASSUME NEW j \in Job PROVE ran[j] <= MaxAttempts + faults + Cardinality(ThrownOut)
  <2>0. /\ Cardinality(ThrownOut) \in Nat /\ faults \in Nat /\ MaxAttempts \in Nat
        /\ ran[j] \in Nat /\ jobs[j].attempts \in Nat /\ jobs[j].attempts <= MaxAttempts
    BY ThrownOutFinite, BoundsAssumption, AttemptsAssumption
    DEF Core, TypeOK, EveryRunCounted, Row
  <2>1. CASE j \notin Locked
    BY <2>0, <2>1 DEF Core, EveryRunCounted, Counted
  <2>2. ASSUME NEW b \in Batch, j \in DOMAIN tx[b]
        PROVE  ran[j] <= MaxAttempts + faults + Cardinality(ThrownOut)
    <3>1. Charge(b, j) \in Nat /\ Charge(b, j) <= MaxAttempts /\ Counted(j, Charge(b, j))
      BY <2>2, Charges
    <3> QED BY <2>0, <3>1 DEF Counted
  <2> QED BY <2>1, <2>2 DEF Locked
<1> QED BY <1>1, <1>2 DEF Core, QueueSafety, RunsBounded

LEMMA InitCore == Init => Core
<1> SUFFICES ASSUME Init PROVE Core
  OBVIOUS
<1>1. TypeOK
  BY InitTypes
<1>2. \A b \in Batch : DOMAIN tx[b] = {} /\ phase[b] = "idle"
  BY DEF Init, NoRows
<1>3. \A j \in Job : jobs[j].status = "absent" /\ jobs[j].attempts = 0 /\ ran[j] = 0
  BY DEF Init
<1>4. /\ Cardinality(ThrownOut) \in Nat /\ faults = 0 /\ MaxAttempts \in Nat
  BY <1>1, ThrownOutFinite, AttemptsAssumption DEF Init
<1>5. EveryRunCounted
  BY <1>2, <1>3, <1>4 DEF EveryRunCounted, Counted
<1> QED
  BY <1>1, <1>2, <1>3, <1>5
  DEF Core, NeverStranded, LocksDisjoint, OutcomesAreTrue, BatchesAreTrue

-----------------------------------------------------------------------------
(* What holds of a batch, of a committed row and of a job's count, each    *)
(* kept by a step that leaves it alone while the history grows.            *)
BatchTrue(b) ==
    /\ phase[b] = "handling" => cur[b] \in DOMAIN tx[b] \ todo[b]
    /\ \A j \in DOMAIN tx[b] :
         /\ jobs[j].status = "pending" /\ jobs[j].due
         /\ IF j \in Unhandled(b)
              THEN tx[b][j] = [jobs[j] EXCEPT !.status = "processing"]
              ELSE Lifecycle!May(j, tx[b][j].status, tx[b][j].attempts)

LEMMA RowKept ==
  ASSUME Core, TypeOK', Grows, NEW d \in Batch, NEW j \in DOMAIN tx[d] \ Unhandled(d),
         tx'[d][j] = tx[d][j], jobs'[j].attempts = jobs[j].attempts
  PROVE  Lifecycle!May(j, tx[d][j].status, tx[d][j].attempts)'
<1>1. tx[d][j].attempts \in Nat /\ j \in Job
  BY DEF Core, TypeOK, Row
<1>2. Lifecycle!May(j, tx[d][j].status, tx[d][j].attempts)
  BY DEF Core, BatchesAreTrue
<1>3. losses[j] \in Nat /\ losses'[j] \in Nat /\ losses'[j] >= losses[j]
  BY <1>1 DEF Core, TypeOK, Grows
<1>4. wins \subseteq wins'
  BY DEF Grows
<1> QED BY <1>1, <1>2, <1>3, <1>4 DEF Lifecycle!May

LEMMA BatchKept ==
  ASSUME Core, TypeOK', Grows, NEW d \in Batch,
         tx'[d] = tx[d], todo'[d] = todo[d],
         phase'[d] = phase[d], phase[d] = "handling" => cur'[d] = cur[d],
         \A j \in DOMAIN tx[d] : jobs'[j] = jobs[j]
  PROVE  BatchTrue(d)'
<1>1. Unhandled(d)' = Unhandled(d)
  BY DEF Unhandled
<1>2. BatchTrue(d)
  BY DEF Core, BatchesAreTrue, BatchTrue
<1>3. ASSUME NEW j \in DOMAIN tx[d], j \notin Unhandled(d)
      PROVE  Lifecycle!May(j, tx[d][j].status, tx[d][j].attempts)'
  BY <1>3, RowKept
<1>4. (phase[d] = "handling" => cur[d] \in DOMAIN tx[d] \ todo[d])'
  BY <1>2 DEF BatchTrue
<1>5. ASSUME NEW j \in DOMAIN tx[d]
      PROVE  /\ jobs'[j].status = "pending" /\ jobs'[j].due
             /\ j \in Unhandled(d) => tx'[d][j] = [jobs'[j] EXCEPT !.status = "processing"]
  BY <1>2 DEF BatchTrue
<1> QED BY <1>1, <1>3, <1>4, <1>5 DEF BatchTrue

LEMMA TableKept ==
  ASSUME Core, TypeOK', Grows, jobs' = jobs
  PROVE  NeverStranded' /\ OutcomesAreTrue'
<1>1. \A j \in Job : /\ losses[j] \in Nat /\ losses'[j] \in Nat
                     /\ losses'[j] >= losses[j] /\ jobs[j].attempts \in Nat
  BY DEF Core, TypeOK, Grows, Row
<1>2. NeverStranded /\ OutcomesAreTrue /\ wins \subseteq wins'
  BY DEF Core, Grows
<1> QED BY <1>1, <1>2 DEF NeverStranded, OutcomesAreTrue

LEMMA CountKept ==
  ASSUME Core, TypeOK', Grows, NEW j \in Job, NEW n \in Nat, Counted(j, n),
         ran'[j] = ran[j], NEW m \in Nat, m + Budget' >= n + Budget
  PROVE  ran'[j] <= m + faults' + Cardinality(ThrownOut')
<1>1. ran[j] \in Nat /\ faults \in Nat /\ faults' \in Nat
  BY BoundsAssumption DEF Core, TypeOK
<1>2. Cardinality(ThrownOut) \in Nat /\ Cardinality(ThrownOut') \in Nat
  <2>1. (Cardinality(ThrownOut) \in Nat)'
    BY ThrownOutFinite, PTL
  <2> QED BY <2>1, ThrownOutFinite DEF Core
<1> QED BY <1>1, <1>2 DEF Counted, Budget

(* The batches of D lose their transactions, if they have any, at the cost *)
(* of a fault or of a rejection without a reason.                          *)
LEMMA ThrowOut ==
  ASSUME Core, TypeOK', Grows, NEW D \in SUBSET Batch,
         \A d \in D : DOMAIN tx'[d] = {} /\ phase'[d] # "handling",
         \A d \in Batch \ D : /\ tx'[d] = tx[d] /\ todo'[d] = todo[d]
                              /\ phase'[d] = phase[d],
         jobs' = jobs, cur' = cur, ran' = ran,
         Budget' >= Budget + 1 \/ \A d \in D : DOMAIN tx[d] = {}
  PROVE  Core'
<1>1. NeverStranded' /\ OutcomesAreTrue'
  BY TableKept
<1>2. LocksDisjoint'
  BY DEF Core, LocksDisjoint
<1>3. ASSUME NEW d \in Batch PROVE BatchTrue(d)'
  BY <1>3, BatchKept DEF BatchTrue
<1>4. ASSUME NEW j \in Job, j \notin Locked' PROVE Counted(j, jobs[j].attempts)'
  <2>0. jobs[j].attempts \in Nat
    BY DEF Core, TypeOK, Row
  <2>1. CASE j \notin Locked
    <3>1. Counted(j, jobs[j].attempts)
      BY <2>1 DEF Core, EveryRunCounted
    <3>2. jobs[j].attempts + Budget' >= jobs[j].attempts + Budget
      BY <2>0 DEF Grows
    <3>3. ran'[j] <= jobs[j].attempts + faults' + Cardinality(ThrownOut')
      BY <2>0, <3>1, <3>2, CountKept
    <3> QED BY <3>3 DEF Counted
  <2>2. ASSUME NEW d \in Batch, j \in DOMAIN tx[d] PROVE Counted(j, jobs[j].attempts)'
    <3>1. /\ Charge(d, j) \in Nat /\ Charge(d, j) <= jobs[j].attempts + 1
          /\ Counted(j, Charge(d, j))
      BY <2>2, Charges
    <3>0. d \in D
      BY <1>4, <2>2 DEF Locked
    <3>2. jobs[j].attempts + Budget' >= Charge(d, j) + Budget
      BY <2>0, <2>2, <3>0, <3>1 DEF Grows
    <3>3. ran'[j] <= jobs[j].attempts + faults' + Cardinality(ThrownOut')
      BY <2>0, <3>1, <3>2, CountKept
    <3> QED BY <3>3 DEF Counted
  <2> QED BY <2>1, <2>2 DEF Locked
<1>5. ASSUME NEW j \in Job, NEW d \in Batch, j \in DOMAIN tx'[d]
      PROVE  Counted(j, Charge(d, j))'
  <2>1. d \notin D /\ j \in DOMAIN tx[d] /\ tx'[d] = tx[d]
        /\ todo'[d] = todo[d] /\ phase'[d] = phase[d]
    BY <1>5
  <2>2. Charge(d, j)' = Charge(d, j)
    BY <2>1 DEF Charge, Unhandled
  <2>3. ran'[j] <= Charge(d, j) + faults' + Cardinality(ThrownOut')
    <3>1. Charge(d, j) \in Nat /\ Counted(j, Charge(d, j))
      BY <2>1, Charges
    <3>2. Charge(d, j) + Budget' >= Charge(d, j) + Budget
      BY <3>1 DEF Grows
    <3> QED BY <3>1, <3>2, CountKept
  <2> QED BY <2>2, <2>3 DEF Counted
<1>6. EveryRunCounted'
  BY <1>4, <1>5 DEF Core, EveryRunCounted, Charge
<1> QED BY <1>1, <1>2, <1>3, <1>6 DEF Core, BatchesAreTrue, BatchTrue

(* Another batch's row keeps its charge.                                   *)
LEMMA ChargeKept ==
  ASSUME Core, TypeOK', Grows, NEW d \in Batch, NEW j \in DOMAIN tx[d],
         tx'[d][j] = tx[d][j], todo'[d] = todo[d], phase'[d] = phase[d],
         phase[d] = "handling" => cur'[d] = cur[d], ran'[j] = ran[j]
  PROVE  Counted(j, Charge(d, j))'
<1>1. Charge(d, j)' = Charge(d, j)
  BY DEF Charge, Unhandled
<1>2. Charge(d, j) \in Nat /\ Counted(j, Charge(d, j)) /\ j \in Job
  BY Charges DEF Core, TypeOK
<1>3. Charge(d, j) + Budget' >= Charge(d, j) + Budget
  BY <1>2 DEF Grows
<1> QED BY <1>1, <1>2, <1>3, CountKept DEF Counted

(* A row nobody has locked keeps its count.                                *)
LEMMA FreeRowKept ==
  ASSUME Core, TypeOK', Grows, NEW j \in Job \ Locked,
         jobs'[j].attempts = jobs[j].attempts, ran'[j] = ran[j]
  PROVE  Counted(j, jobs[j].attempts)'
<1>1. jobs[j].attempts \in Nat /\ Counted(j, jobs[j].attempts)
  BY DEF Core, TypeOK, Row, EveryRunCounted
<1>2. jobs[j].attempts + Budget' >= jobs[j].attempts + Budget
  BY <1>1 DEF Grows
<1> QED BY <1>1, <1>2, CountKept DEF Counted

(* A batch writes the outcome r of the row j it has come to.               *)
LEMMA Handled ==
  ASSUME Core, TypeOK', Grows, NEW b \in Batch, NEW j \in DOMAIN tx[b], NEW r \in Row,
         tx' = [tx EXCEPT ![b][j] = r],
         phase' = [phase EXCEPT ![b] = "open"],
         jobs' = jobs, cur' = cur, ran' = ran,
         j \in Unhandled(b), Unhandled(b)' = Unhandled(b) \ {j},
         todo'[b] = todo[b] \ {j}, \A d \in Batch \ {b} : todo'[d] = todo[d],
         Lifecycle!May(j, r.status, r.attempts)',
         r.attempts >= Charge(b, j)
  PROVE  Core'
<1>0. /\ \A d \in Batch : d # b => tx'[d] = tx[d] /\ phase'[d] = phase[d]
      /\ DOMAIN tx'[b] = DOMAIN tx[b] /\ tx'[b][j] = r /\ phase'[b] = "open"
      /\ \A k \in DOMAIN tx[b] : k # j => tx'[b][k] = tx[b][k]
      /\ \A d \in Batch : DOMAIN tx'[d] = DOMAIN tx[d]
  BY Write DEF Core, TypeOK
<1>1. NeverStranded' /\ OutcomesAreTrue'
  BY TableKept
<1>2. LocksDisjoint' /\ Locked' = Locked
  BY <1>0 DEF Core, LocksDisjoint, Locked
<1>3. ASSUME NEW d \in Batch \ {b} PROVE BatchTrue(d)'
  BY <1>0, <1>3, BatchKept
<1>4. BatchTrue(b)'
  <2>1. ASSUME NEW k \in DOMAIN tx[b]
        PROVE  /\ jobs[k].status = "pending" /\ jobs[k].due
               /\ k \in Unhandled(b) => tx[b][k] = [jobs[k] EXCEPT !.status = "processing"]
    BY DEF Core, BatchesAreTrue
  <2>2. ASSUME NEW k \in DOMAIN tx[b] \ Unhandled(b)
        PROVE  Lifecycle!May(k, tx[b][k].status, tx[b][k].attempts)'
    BY <1>0, <2>2, RowKept
  <2>3. Lifecycle!May(j, tx[b][j].status, tx[b][j].attempts)'
    BY <1>0
  <2> QED BY <1>0, <2>1, <2>2, <2>3 DEF BatchTrue
<1>5. ASSUME NEW k \in Job, k \notin Locked' PROVE Counted(k, jobs[k].attempts)'
  BY <1>2, <1>5, FreeRowKept
<1>6. ASSUME NEW k \in Job, NEW d \in Batch, k \in DOMAIN tx'[d]
      PROVE  Counted(k, Charge(d, k))'
  <2>1. CASE d # b
    BY <1>0, <1>6, <2>1, ChargeKept
  <2>2. CASE d = b /\ k = j
    <3>1. Charge(d, k)' = r.attempts + 0
      BY <1>0, <2>2 DEF Charge
    <3>2. /\ Charge(b, j) \in Nat /\ Counted(j, Charge(b, j))
          /\ r.attempts \in Nat
      BY Charges DEF Row
    <3>3. r.attempts + Budget' >= Charge(b, j) + Budget
      BY <3>2 DEF Grows
    <3>4. ran'[j] <= r.attempts + faults' + Cardinality(ThrownOut')
      BY <2>2, <3>2, <3>3, CountKept
    <3>5. Charge(d, k)' = r.attempts
      BY <3>1, <3>2
    <3> QED BY <2>2, <3>4, <3>5 DEF Counted
  <2>3. CASE d = b /\ k # j
    <3>1. Charge(b, k)' = Charge(b, k)
      BY <1>0, <1>6, <2>3 DEF Charge
    <3>2. Charge(b, k) \in Nat /\ Counted(k, Charge(b, k))
      BY <1>0, <1>6, <2>3, Charges
    <3>3. Charge(b, k) + Budget' >= Charge(b, k) + Budget
      BY <3>2 DEF Grows
    <3> QED BY <2>3, <3>1, <3>2, <3>3, CountKept DEF Counted
  <2> QED BY <2>1, <2>2, <2>3
<1>7. EveryRunCounted'
  BY <1>5, <1>6 DEF Core, EveryRunCounted, Charge
<1> QED BY <1>1, <1>2, <1>3, <1>4, <1>7 DEF Core, BatchesAreTrue, BatchTrue

-----------------------------------------------------------------------------
(* One step of each kind keeps the invariant.                              *)
LEMMA StepJob ==
  ASSUME Core, TypeOK', Grows, NEW i \in Job, Enqueue(i) \/ BecomeDue(i)
  PROVE  Core'
<1>0. UNCHANGED <<tx, phase, todo, cur, ran, wins, losses, faults, given>>
  BY DEF Enqueue, BecomeDue, worker, process, history
<1>1. /\ jobs[i] \in Row /\ jobs'[i] \in Row
      /\ \A j \in Job : j # i => jobs'[j] = jobs[j]
      /\ jobs'[i].status = "pending"
      /\ jobs'[i].attempts = jobs[i].attempts
      /\ jobs[i].status = "pending" \/ jobs'[i].attempts = 0
  <2>1. jobs[i] \in Row /\ jobs'[i] \in Row /\ DOMAIN jobs = Job
    BY DEF Core, TypeOK
  <2>2. CASE Enqueue(i)
    <3>1. PICK due \in BOOLEAN :
            jobs' = [jobs EXCEPT ![i] = [status |-> "pending", attempts |-> 0, due |-> due]]
      BY <2>2 DEF Enqueue
    <3>2. jobs[i].status = "absent" /\ jobs[i].attempts = 0
      BY <2>2 DEF Enqueue, Core, EveryRunCounted
    <3> QED BY <2>1, <3>1, <3>2
  <2>3. CASE BecomeDue(i)
    <3>1. /\ jobs[i].status = "pending"
          /\ jobs' = [jobs EXCEPT ![i] = [jobs[i] EXCEPT !.due = TRUE]]
      BY <2>3 DEF BecomeDue
    <3>2. jobs'[i] = [jobs[i] EXCEPT !.due = TRUE]
      BY <2>1, <3>1
    <3>3. jobs'[i].status = jobs[i].status /\ jobs'[i].attempts = jobs[i].attempts
      BY <2>1, <3>2 DEF Row
    <3> QED BY <2>1, <3>1, <3>3
  <2> QED BY <2>2, <2>3
<1>2. i \notin Locked /\ Locked' = Locked
  <2>1. ASSUME NEW d \in Batch, i \in DOMAIN tx[d] PROVE FALSE
    <3>1. jobs[i].status = "pending" /\ jobs[i].due
      BY <2>1 DEF Core, BatchesAreTrue
    <3> QED BY <3>1 DEF Enqueue, BecomeDue
  <2> QED BY <1>0, <2>1 DEF Locked
<1>3. ASSUME NEW d \in Batch PROVE BatchTrue(d)'
  <2>1. \A j \in DOMAIN tx[d] : jobs'[j] = jobs[j]
    BY <1>1, <1>2 DEF Locked, Core, TypeOK
  <2> QED BY <1>0, <2>1, BatchKept
<1>4. \A j \in Job : jobs'[j].attempts = jobs[j].attempts
  BY <1>1
<1>5. EveryRunCounted'
  <2>1. ASSUME NEW j \in Job, j \notin Locked' PROVE Counted(j, jobs[j].attempts)'
    BY <1>0, <1>2, <1>4, <2>1, FreeRowKept
  <2>2. ASSUME NEW j \in Job, NEW d \in Batch, j \in DOMAIN tx'[d]
        PROVE  Counted(j, Charge(d, j))'
    BY <1>0, <2>2, ChargeKept
  <2>3. ASSUME NEW j \in Job
        PROVE  /\ jobs'[j].attempts <= MaxAttempts
               /\ jobs'[j].status = "absent" => jobs'[j].attempts = 0
    BY <1>1 DEF Core, EveryRunCounted
  <2> QED BY <2>1, <2>2, <2>3 DEF EveryRunCounted, Charge
<1>6. NeverStranded' /\ OutcomesAreTrue'
  <2>1. losses[i] \in Nat /\ jobs[i].attempts \in Nat
    BY DEF Core, TypeOK, Row
  <2>2. MaxAttempts \in Nat \ {0}
    BY AttemptsAssumption
  <2>3. NeverStranded'
    BY <1>1 DEF Core, NeverStranded
  <2>4. ASSUME NEW j \in Job
        PROVE  (/\ jobs[j].status = "done" => j \in wins
                /\ jobs[j].status \in {"pending", "dead"} => losses[j] >= jobs[j].attempts
                /\ jobs[j].status = "dead" => jobs[j].attempts = MaxAttempts
                /\ jobs[j].status = "pending" => jobs[j].attempts < MaxAttempts)'
    <3>1. CASE j = i
      <4>1. jobs[i].status = "pending" =>
              losses[i] >= jobs[i].attempts /\ jobs[i].attempts < MaxAttempts
        BY DEF Core, OutcomesAreTrue
      <4> QED BY <1>0, <1>1, <2>1, <2>2, <3>1, <4>1
    <3>2. CASE j # i
      BY <1>0, <1>1, <3>2 DEF Core, OutcomesAreTrue
    <3> QED BY <3>1, <3>2
  <2> QED BY <2>3, <2>4 DEF OutcomesAreTrue
<1>7. LocksDisjoint'
  BY <1>0 DEF Core, LocksDisjoint
<1> QED BY <1>3, <1>5, <1>6, <1>7 DEF Core, BatchesAreTrue, BatchTrue

LEMMA StepClaim ==
  ASSUME Core, TypeOK', Grows, NEW b \in Batch, Claim(b)
  PROVE  Core'
<1>0. PICK S \in SUBSET Claimable :
        /\ jobs' = jobs /\ tx' = [tx EXCEPT ![b] = Processing(S)]
        /\ todo' = [todo EXCEPT ![b] = S]
        /\ phase' = [phase EXCEPT ![b] = "open"]
        /\ UNCHANGED <<cur, faults, ran, wins, losses, given>>
  BY DEF Claim, TableAfterClaim, process, history
<1>1. /\ S \subseteq Job /\ S \cap Locked = {} /\ DOMAIN tx[b] = {}
      /\ \A j \in S : jobs[j] \in Row /\ jobs[j].status = "pending" /\ jobs[j].due
  BY DEF Claim, Claimable, Core, TypeOK
<1>2. /\ tx'[b] = Processing(S) /\ DOMAIN tx'[b] = S /\ todo'[b] = S /\ phase'[b] = "open"
      /\ \A j \in S : tx'[b][j] = [jobs[j] EXCEPT !.status = "processing"]
      /\ \A d \in Batch : d # b => /\ tx'[d] = tx[d] /\ todo'[d] = todo[d]
                                   /\ phase'[d] = phase[d]
  BY <1>0 DEF Processing, Core, TypeOK
<1>3. Locked \subseteq Locked'
  BY <1>1, <1>2 DEF Locked
<1>4. NeverStranded' /\ OutcomesAreTrue'
  BY <1>0, TableKept
<1>5. LocksDisjoint'
  BY <1>1, <1>2 DEF Core, LocksDisjoint, Locked
<1>6. ASSUME NEW d \in Batch PROVE BatchTrue(d)'
  <2>1. CASE d # b
    BY <1>0, <1>2, <2>1, BatchKept
  <2>2. CASE d = b
    BY <1>0, <1>1, <1>2, <2>2 DEF BatchTrue, Unhandled
  <2> QED BY <2>1, <2>2
<1>7. ASSUME NEW j \in Job, j \notin Locked' PROVE Counted(j, jobs[j].attempts)'
  BY <1>0, <1>3, <1>7, FreeRowKept
<1>8. ASSUME NEW j \in Job, NEW d \in Batch, j \in DOMAIN tx'[d]
      PROVE  Counted(j, Charge(d, j))'
  <2>1. CASE d # b
    BY <1>0, <1>2, <1>8, <2>1, ChargeKept
  <2>2. CASE d = b
    <3>1. j \in S /\ j \notin Locked /\ jobs'[j].attempts = jobs[j].attempts
      BY <1>0, <1>1, <1>2, <1>8, <2>2
    <3>2. Counted(j, jobs[j].attempts)'
      BY <1>0, <3>1, FreeRowKept
    <3>3. Charge(d, j)' = jobs[j].attempts + 0
      BY <1>1, <1>2, <2>2, <3>1 DEF Charge, Row
    <3>4. jobs[j].attempts \in Nat
      BY DEF Core, TypeOK, Row
    <3>5. Charge(d, j)' = jobs'[j].attempts
      BY <3>1, <3>3, <3>4
    <3> QED BY <3>2, <3>5 DEF Counted
  <2> QED BY <2>1, <2>2
<1>9. EveryRunCounted'
  BY <1>0, <1>7, <1>8 DEF Core, EveryRunCounted, Charge
<1> QED BY <1>4, <1>5, <1>6, <1>9 DEF Core, BatchesAreTrue, BatchTrue

LEMMA StepNoHandler ==
  ASSUME Core, TypeOK', Grows, NEW b \in Batch, NEW j \in Job, NoHandler(b, j)
  PROVE  Core'
<1>0. PICK r : r = MarkFailed(tx[b][j])
  OBVIOUS
<1>1. /\ phase[b] = "open" /\ j \in todo[b] /\ j \in DOMAIN tx[b]
      /\ phase \in [Batch -> {"idle", "connected", "open", "handling", "zombie"}]
      /\ todo \in [Batch -> SUBSET Job]
  BY DEF NoHandler, Core, TypeOK
<1>2. /\ tx' = [tx EXCEPT ![b][j] = r]
      /\ todo' = [todo EXCEPT ![b] = todo[b] \ {j}]
      /\ UNCHANGED <<jobs, phase, cur, ran, wins, losses>>
  BY <1>0, <1>1 DEF NoHandler, Core, TypeOK, process, history
<1>3. j \in Unhandled(b) /\ Unhandled(b)' = Unhandled(b) \ {j}
  BY <1>1, <1>2 DEF Unhandled
<1>4. /\ tx[b][j] = [jobs[j] EXCEPT !.status = "processing"] /\ jobs[j] \in Row
      /\ tx[b][j] \in Row
  BY <1>1, <1>3, Reports
<1>5. r \in Row /\ r.status = "failed" /\ r.attempts = jobs[j].attempts
  BY <1>0, <1>4, RowTypes DEF MarkFailed, Row
<1>6. Charge(b, j) = jobs[j].attempts
  <2>1. Charge(b, j) = jobs[j].attempts + 0
    BY <1>1, <1>4 DEF Charge, Row
  <2> QED BY <1>4, <2>1 DEF Row
<1>7. Lifecycle!May(j, r.status, r.attempts)'
  BY <1>2, <1>5 DEF Lifecycle!May
<1>8. r.attempts >= Charge(b, j)
  BY <1>4, <1>5, <1>6 DEF Row
<1>9. /\ phase' = [phase EXCEPT ![b] = "open"]
      /\ todo'[b] = todo[b] \ {j} /\ \A d \in Batch \ {b} : todo'[d] = todo[d]
  BY <1>1, <1>2
<1> QED BY <1>1, <1>2, <1>3, <1>5, <1>7, <1>8, <1>9, Handled

(* A failed attempt at a row that the batch has not handled.               *)
LEMMA FailedAttempt ==
  ASSUME Core, TypeOK', NEW b \in Batch, NEW j \in DOMAIN tx[b], j \in Unhandled(b),
         Lost(j), jobs' = jobs,
         NEW r, r = RetryOrDie(tx[b][j], tx[b][j].attempts + 1)
  PROVE  /\ r \in Row /\ r.attempts = tx[b][j].attempts + 1
         /\ Lifecycle!May(j, r.status, r.attempts)'
<1>1. /\ tx[b][j] \in Row /\ tx[b][j].status = "processing" /\ j \in Job
      /\ tx[b][j].attempts = jobs[j].attempts
      /\ jobs[j].attempts < MaxAttempts /\ losses[j] >= jobs[j].attempts
  BY Reports
<1>2. PICK n : n = tx[b][j].attempts + 1
  OBVIOUS
<1>3. /\ n \in Nat /\ n = jobs[j].attempts + 1 /\ jobs[j].attempts \in Nat
      /\ MaxAttempts \in Nat /\ losses[j] \in Nat
  BY <1>1, <1>2, AttemptsAssumption DEF Row, Core, TypeOK
<1>4. r \in Row
  BY <1>1, <1>2, <1>3, RowTypes
<1>5. /\ r.attempts = n
      /\ \/ r.status = "dead" /\ n >= MaxAttempts
         \/ r.status = "pending" /\ n < MaxAttempts
  BY <1>1, <1>2, <1>3 DEF RetryOrDie, Row
<1>6. losses'[j] = losses[j] + 1
  BY <1>1 DEF Lost, Core, TypeOK
<1>7. losses'[j] >= n
  BY <1>1, <1>3, <1>6
<1>8. Lifecycle!May(j, r.status, n)'
  <2>1. jobs'[j].attempts = jobs[j].attempts
    OBVIOUS
  <2> QED BY <1>1, <1>3, <1>5, <1>7, <2>1 DEF Lifecycle!May
<1> QED BY <1>2, <1>4, <1>5, <1>8

LEMMA StepPayloadThrows ==
  ASSUME Core, TypeOK', Grows, NEW b \in Batch, NEW j \in Job, PayloadThrows(b, j)
  PROVE  Core'
<1>0. PICK r : r = RetryOrDie(tx[b][j], tx[b][j].attempts + 1)
  OBVIOUS
<1>1. /\ phase[b] = "open" /\ j \in todo[b] /\ j \in DOMAIN tx[b] /\ Lost(j)
      /\ phase \in [Batch -> {"idle", "connected", "open", "handling", "zombie"}]
      /\ todo \in [Batch -> SUBSET Job]
  BY DEF PayloadThrows, Core, TypeOK
<1>2. /\ tx' = [tx EXCEPT ![b][j] = r]
      /\ todo' = [todo EXCEPT ![b] = todo[b] \ {j}]
      /\ UNCHANGED <<jobs, phase, cur, ran>>
  BY <1>0, <1>1 DEF PayloadThrows, Lost, Core, TypeOK
<1>3. j \in Unhandled(b) /\ Unhandled(b)' = Unhandled(b) \ {j}
  BY <1>1, <1>2 DEF Unhandled
<1>4. /\ r \in Row /\ r.attempts = tx[b][j].attempts + 1
      /\ Lifecycle!May(j, r.status, r.attempts)'
  BY <1>0, <1>1, <1>2, <1>3, FailedAttempt
<1>5. r.attempts >= Charge(b, j)
  <2>1. Charge(b, j) = tx[b][j].attempts + 0
    BY <1>1 DEF Charge
  <2>2. tx[b][j].attempts \in Nat
    BY <1>1 DEF Core, TypeOK, Row
  <2> QED BY <1>4, <2>1, <2>2
<1>6. /\ phase' = [phase EXCEPT ![b] = "open"]
      /\ todo'[b] = todo[b] \ {j} /\ \A d \in Batch \ {b} : todo'[d] = todo[d]
  BY <1>1, <1>2
<1> QED BY <1>1, <1>2, <1>3, <1>4, <1>5, <1>6, Handled

LEMMA StepCallHandler ==
  ASSUME Core, TypeOK', Grows, NEW b \in Batch, NEW j \in Job, CallHandler(b, j)
  PROVE  Core'
<1>1. /\ phase[b] = "open" /\ j \in todo[b] /\ j \in DOMAIN tx[b]
      /\ todo[b] \subseteq DOMAIN tx[b]
      /\ phase'[b] = "handling" /\ cur'[b] = j /\ todo'[b] = todo[b] \ {j}
      /\ \A d \in Batch \ {b} : /\ phase'[d] = phase[d] /\ cur'[d] = cur[d]
                                /\ todo'[d] = todo[d]
      /\ ran'[j] = ran[j] + 1 /\ \A k \in Job \ {j} : ran'[k] = ran[k]
      /\ UNCHANGED <<jobs, tx, wins, losses, faults, given>>
  BY DEF CallHandler, Core, TypeOK, table, process
<1>2. Unhandled(b)' = Unhandled(b) /\ Locked' = Locked /\ j \in Locked
  BY <1>1 DEF Unhandled, Locked
<1>3. NeverStranded' /\ OutcomesAreTrue' /\ LocksDisjoint'
  BY <1>1, TableKept DEF Core, LocksDisjoint
<1>4. ASSUME NEW d \in Batch PROVE BatchTrue(d)'
  <2>1. CASE d # b
    BY <1>1, <2>1, BatchKept
  <2>2. CASE d = b
    <3>1. \A k \in DOMAIN tx[b] \ Unhandled(b) :
            Lifecycle!May(k, tx[b][k].status, tx[b][k].attempts)'
      BY <1>1, RowKept
    <3> QED BY <1>1, <1>2, <2>2, <3>1 DEF Core, BatchesAreTrue, BatchTrue
  <2> QED BY <2>1, <2>2
<1>5. ASSUME NEW k \in Job, k \notin Locked' PROVE Counted(k, jobs[k].attempts)'
  BY <1>1, <1>2, <1>5, FreeRowKept
<1>6. ASSUME NEW k \in Job, NEW d \in Batch, k \in DOMAIN tx'[d]
      PROVE  Counted(k, Charge(d, k))'
  <2>1. CASE d # b
    <3>1. k # j
      BY <1>1, <1>6, <2>1 DEF Core, LocksDisjoint
    <3> QED BY <1>1, <1>6, <2>1, <3>1, ChargeKept
  <2>2. CASE d = b /\ k # j
    <3>1. Charge(b, k)' = Charge(b, k)
      BY <1>1, <1>2, <2>2 DEF Charge, Unhandled
    <3>2. Charge(b, k) \in Nat /\ Counted(k, Charge(b, k))
      BY <1>1, <1>6, <2>2, Charges
    <3>3. Charge(b, k) + Budget' >= Charge(b, k) + Budget
      BY <3>2 DEF Grows
    <3> QED BY <1>1, <2>2, <3>1, <3>2, <3>3, CountKept DEF Counted
  <2>3. CASE d = b /\ k = j
    <3>1. /\ tx[b][j].attempts \in Nat /\ ran[j] \in Nat
          /\ faults \in Nat /\ Cardinality(ThrownOut) \in Nat
      BY <1>1, ThrownOutFinite, BoundsAssumption DEF Core, TypeOK, Row
    <3>2. Charge(b, j)' = tx[b][j].attempts + 1
      BY <1>1, <1>2 DEF Charge, Unhandled
    <3>3. Charge(b, j) = tx[b][j].attempts + 0
      BY <1>1 DEF Charge
    <3>4. ran[j] <= tx[b][j].attempts + 0 + faults + Cardinality(ThrownOut)
      BY <1>1, <3>3, Charges DEF Counted
    <3>5. Cardinality(ThrownOut') = Cardinality(ThrownOut)
      BY <1>1 DEF ThrownOut, given
    <3>6. ran'[j] <= tx[b][j].attempts + 1 + faults' + Cardinality(ThrownOut')
      BY <1>1, <3>1, <3>4, <3>5
    <3> QED BY <2>3, <3>2, <3>6 DEF Counted
  <2> QED BY <2>1, <2>2, <2>3
<1>7. EveryRunCounted'
  BY <1>1, <1>5, <1>6 DEF Core, EveryRunCounted, Charge
<1> QED BY <1>3, <1>4, <1>7 DEF Core, BatchesAreTrue, BatchTrue

(* A handler has settled and its outcome is written.                       *)
LEMMA StepSettle ==
  ASSUME Core, TypeOK', Grows, NEW b \in Batch,
         HandlerFulfils(b) \/ HandlerRejects(b) \/ DoneReplyLate(b)
  PROVE  Core'
<1>0. PICK j, n : j = cur[b] /\ n = tx[b][j].attempts + 1
  OBVIOUS
<1>1. /\ phase[b] = "handling" /\ j \in DOMAIN tx[b] \ todo[b] /\ j \in Job
      /\ phase' = [phase EXCEPT ![b] = "open"]
      /\ UNCHANGED <<jobs, todo, cur, ran>>
      /\ phase \in [Batch -> {"idle", "connected", "open", "handling", "zombie"}]
  BY <1>0 DEF HandlerFulfils, HandlerRejects, DoneReplyLate, Won, Lost, process,
         Core, TypeOK, BatchesAreTrue
<1>2. j \in Unhandled(b) /\ Unhandled(b)' = Unhandled(b) \ {j}
  BY <1>0, <1>1 DEF Unhandled
<1>3. /\ tx[b][j] = [jobs[j] EXCEPT !.status = "processing"] /\ jobs[j] \in Row
      /\ tx[b][j] \in Row /\ tx[b][j].status = "processing"
      /\ tx[b][j].attempts = jobs[j].attempts
      /\ jobs[j].attempts < MaxAttempts /\ losses[j] >= jobs[j].attempts
  BY <1>1, <1>2, Reports
<1>4. /\ n \in Nat /\ n = jobs[j].attempts + 1 /\ n <= MaxAttempts /\ MaxAttempts \in Nat
      /\ jobs[j].attempts \in Nat /\ losses[j] \in Nat /\ losses'[j] \in Nat
  BY <1>0, <1>1, <1>3, AttemptsAssumption DEF Row, Core, TypeOK
<1>5. Charge(b, j) = n
  BY <1>0, <1>1, <1>2 DEF Charge
<1>6. PICK r \in Row : /\ tx' = [tx EXCEPT ![b][j] = r] /\ r.attempts = n
                       /\ Lifecycle!May(j, r.status, n)'
  <2>1. CASE HandlerFulfils(b) \/ DoneReplyLate(b)
    <3>0. PICK r : r = MarkDone(tx[b][j], n)
      OBVIOUS
    <3>1. r \in Row /\ r.status = "done" /\ r.attempts = n
      BY <1>3, <1>4, <3>0, RowTypes DEF MarkDone, Row
    <3>2. RetryOrDie(r, n) = r
      BY <3>1 DEF RetryOrDie
    <3>3. tx' = [tx EXCEPT ![b][j] = r]
      BY <1>0, <1>1, <2>1, <3>0, <3>2 DEF HandlerFulfils, DoneReplyLate, Core, TypeOK
    <3>4. j \in wins'
      BY <1>0, <2>1 DEF HandlerFulfils, DoneReplyLate, Won
    <3>5. Lifecycle!May(j, r.status, n)'
      BY <1>1, <1>4, <3>1, <3>4 DEF Lifecycle!May
    <3> QED BY <3>1, <3>3, <3>5
  <2>2. CASE HandlerRejects(b)
    <3>0. PICK r : r = RetryOrDie(tx[b][j], n)
      OBVIOUS
    <3>1. Lost(j)
      BY <1>0, <2>2 DEF HandlerRejects
    <3>2. r \in Row /\ r.attempts = n /\ Lifecycle!May(j, r.status, r.attempts)'
      BY <1>0, <1>1, <1>2, <3>0, <3>1, FailedAttempt
    <3>3. tx' = [tx EXCEPT ![b][j] = r]
      BY <1>0, <1>1, <2>2, <3>0 DEF HandlerRejects, Core, TypeOK
    <3> QED BY <3>2, <3>3
  <2> QED BY <2>1, <2>2
<1>7. todo'[b] = todo[b] \ {j} /\ \A d \in Batch \ {b} : todo'[d] = todo[d]
  BY <1>1
<1>8. r.attempts >= Charge(b, j) /\ Lifecycle!May(j, r.status, r.attempts)'
  BY <1>4, <1>5, <1>6
<1> QED BY <1>1, <1>2, <1>6, <1>7, <1>8, Handled

(* An open batch whose rows are all handled.                               *)
LEMMA AllHandled ==
  ASSUME Core, NEW b \in Batch, Commit(b)
  PROVE  /\ Unhandled(b) = {}
         /\ tx'[b] = NoRows /\ \A d \in Batch \ {b} : tx'[d] = tx[d]
         /\ \A j \in DOMAIN tx[b] : jobs'[j] = tx[b][j]
         /\ \A j \in Job \ DOMAIN tx[b] : jobs'[j] = jobs[j]
         /\ phase'[b] = "idle" /\ \A d \in Batch \ {b} : phase'[d] = phase[d]
         /\ UNCHANGED <<todo, cur, ran, wins, losses, faults, given>>
  BY DEF Commit, Unhandled, Core, TypeOK, process, history

LEMMA StepCommit ==
  ASSUME Core, TypeOK', Grows, NEW b \in Batch, Commit(b)
  PROVE  Core'
<1>1. ASSUME NEW j \in Job
      PROVE  (/\ jobs[j].status # "processing"
              /\ jobs[j].status = "done" => j \in wins
              /\ jobs[j].status \in {"pending", "dead"} => losses[j] >= jobs[j].attempts
              /\ jobs[j].status = "dead" => jobs[j].attempts = MaxAttempts
              /\ jobs[j].status = "pending" => jobs[j].attempts < MaxAttempts
              /\ jobs[j].attempts <= MaxAttempts
              /\ jobs[j].status = "absent" => jobs[j].attempts = 0)'
  <2>0. /\ MaxAttempts \in Nat /\ jobs[j].attempts \in Nat
        /\ UNCHANGED <<wins, losses>>
    BY AllHandled, AttemptsAssumption DEF Core, TypeOK, Row
  <2>1. CASE j \notin DOMAIN tx[b]
    BY <2>1, AllHandled DEF Core, NeverStranded, OutcomesAreTrue, EveryRunCounted
  <2>2. CASE j \in DOMAIN tx[b]
    <3>1. jobs'[j] = tx[b][j] /\ j \notin Unhandled(b)
      BY <2>2, AllHandled
    <3>2. tx[b][j].status \in Terminal \cup {"pending"} /\ jobs[j].attempts < MaxAttempts
      BY <2>2, <3>1, Reports
    <3>3. /\ tx[b][j].attempts \in Nat
          /\ \/ tx[b][j].attempts = jobs[j].attempts
             \/ tx[b][j].attempts = jobs[j].attempts + 1
      BY <2>2, <3>1, Reports DEF Row
    <3>4. /\ tx[b][j].status = "done" => j \in wins
          /\ tx[b][j].status \in {"pending", "dead"} => losses[j] >= tx[b][j].attempts
          /\ tx[b][j].status = "dead" => tx[b][j].attempts = MaxAttempts
          /\ tx[b][j].status = "pending" => tx[b][j].attempts < MaxAttempts
      BY <2>2, <3>1, Reports
    <3>5. tx[b][j].attempts <= MaxAttempts
      BY <2>0, <3>2, <3>3
    <3> QED BY <2>0, <3>1, <3>2, <3>4, <3>5 DEF Terminal
  <2> QED BY <2>1, <2>2
<1>2. LocksDisjoint'
  BY AllHandled, NoRowsType DEF Core, LocksDisjoint
<1>3. ASSUME NEW d \in Batch PROVE BatchTrue(d)'
  <2>1. CASE d = b
    BY <2>1, AllHandled, NoRowsType DEF BatchTrue
  <2>2. CASE d # b
    <3>1. \A j \in DOMAIN tx[d] : jobs'[j] = jobs[j]
      BY <2>2, AllHandled DEF Core, TypeOK, LocksDisjoint
    <3> QED BY <2>2, <3>1, AllHandled, BatchKept
  <2> QED BY <2>1, <2>2
<1>4. ASSUME NEW j \in Job, j \notin Locked' PROVE Counted(j, jobs[j].attempts)'
  <2>1. CASE j \in DOMAIN tx[b]
    <3>1. jobs'[j] = tx[b][j] /\ j \notin Unhandled(b) /\ ran'[j] = ran[j]
      BY <2>1, AllHandled
    <3>2. Charge(b, j) = tx[b][j].attempts + 0 /\ tx[b][j].attempts \in Nat
      BY <2>1, <3>1 DEF Charge, Core, TypeOK, Row
    <3>3. Counted(j, Charge(b, j))
      BY <2>1, Charges
    <3>4. Charge(b, j) = tx[b][j].attempts
      BY <3>2
    <3>5. tx[b][j].attempts + Budget' >= tx[b][j].attempts + Budget
      BY <3>2 DEF Grows
    <3>6. ran'[j] <= tx[b][j].attempts + faults' + Cardinality(ThrownOut')
      BY <3>1, <3>2, <3>3, <3>4, <3>5, CountKept
    <3> QED BY <3>1, <3>6 DEF Counted
  <2>2. CASE j \notin DOMAIN tx[b]
    <3>1. j \notin Locked
      BY <1>4, <2>2, AllHandled DEF Locked
    <3> QED BY <2>2, <3>1, AllHandled, FreeRowKept
  <2> QED BY <2>1, <2>2
<1>5. ASSUME NEW j \in Job, NEW d \in Batch, j \in DOMAIN tx'[d]
      PROVE  Counted(j, Charge(d, j))'
  <2>1. d # b
    BY <1>5, AllHandled, NoRowsType
  <2> QED BY <1>5, <2>1, AllHandled, ChargeKept
<1>6. EveryRunCounted'
  BY <1>1, <1>4, <1>5 DEF EveryRunCounted, Charge
<1>7. NeverStranded' /\ OutcomesAreTrue'
  BY <1>1 DEF NeverStranded, OutcomesAreTrue
<1> QED BY <1>2, <1>3, <1>6, <1>7 DEF Core, BatchesAreTrue, BatchTrue

(* Every way of losing a transaction costs a fault or a rejection without  *)
(* a reason.                                                               *)
LEMMA StepRollBack ==
  ASSUME Core, TypeOK', Grows, GarbledNeverRun, NEW b \in Batch,
         \/ QueryFails(b) \/ OutcomeQueryFails(b)
         \/ HandlerRejectsWithoutReason(b) \/ SessionLost(b)
  PROVE  Core'
<1>1. /\ tx' = [tx EXCEPT ![b] = NoRows] /\ todo' = [todo EXCEPT ![b] = {}]
      /\ phase' \in {[phase EXCEPT ![b] = "idle"], [phase EXCEPT ![b] = "zombie"]}
      /\ UNCHANGED <<jobs, cur, ran, given>>
      /\ cur[b] \in Job /\ faults \in Nat
  BY BoundsAssumption
  DEF QueryFails, OutcomeQueryFails, HandlerRejectsWithoutReason, SessionLost,
      RollBack, Won, Lost, process, history, Core, TypeOK
<1>2. Budget' >= Budget + 1
  <2>1. CASE HandlerRejectsWithoutReason(b)
    <3>1. faults' = faults /\ cur[b] \in reasonless \ garbled /\ Lost(cur[b])
      BY <2>1 DEF HandlerRejectsWithoutReason, GarbledNeverRun
    <3> QED BY <1>1, <3>1, GrowsIf DEF Core
  <2>2. CASE QueryFails(b) \/ OutcomeQueryFails(b) \/ SessionLost(b)
    <3>1. /\ faults' = faults + 1
          /\ UNCHANGED <<wins, losses>> \/ Won(cur[b]) \/ Lost(cur[b])
      BY <2>2 DEF QueryFails, OutcomeQueryFails, SessionLost, Fault, history
    <3>2. faults' >= faults /\ faults' > faults
      BY <1>1, <3>1
    <3> QED BY <1>1, <3>1, <3>2, GrowsIf DEF Core
  <2> QED BY <2>1, <2>2
<1>3. /\ DOMAIN tx'[b] = {} /\ phase'[b] # "handling"
      /\ \A d \in Batch \ {b} : /\ tx'[d] = tx[d] /\ todo'[d] = todo[d]
                                /\ phase'[d] = phase[d]
  BY <1>1, NoRowsType DEF Core, TypeOK
<1>4. {b} \in SUBSET Batch
  OBVIOUS
<1> QED BY <1>1, <1>2, <1>3, <1>4, ThrowOut

LEMMA StepCrash ==
  ASSUME Core, TypeOK', Grows, NEW p \in Process, Crash(p)
  PROVE  Core'
<1> DEFINE D == {b \in Batch : b[1] = p}
<1>1. /\ \A d \in D : DOMAIN tx'[d] = {} /\ phase'[d] # "handling"
      /\ \A d \in Batch \ D : /\ tx'[d] = tx[d] /\ todo'[d] = todo[d]
                              /\ phase'[d] = phase[d]
      /\ UNCHANGED <<jobs, cur, ran, wins, losses, given>>
  BY NoRowsType DEF Crash, history
<1>2. Budget' >= Budget + 1
  <2>1. faults \in Nat /\ faults' = faults + 1
    BY BoundsAssumption DEF Crash, Fault, Core, TypeOK
  <2>2. faults' >= faults /\ faults' > faults
    BY <2>1
  <2> QED BY <1>1, <2>2, GrowsIf DEF Core
<1>3. D \in SUBSET Batch
  OBVIOUS
<1> HIDE DEF D
<1> QED BY <1>1, <1>2, <1>3, ThrowOut

(* Steps that touch neither rows nor running handlers.                     *)
LEMMA StepQuiet ==
  ASSUME Core, TypeOK', Grows, UNCHANGED <<jobs, tx, todo, cur, ran>>,
         \/ phase' = phase
         \/ \E b \in Batch : Poll(b) \/ ZombieEnds(b)
  PROVE  Core'
<1>1. CASE phase' = phase
  <2>1. {} \in SUBSET Batch
    OBVIOUS
  <2> QED BY <1>1, <2>1, ThrowOut
<1>2. ASSUME NEW b \in Batch, Poll(b) \/ ZombieEnds(b) PROVE Core'
  <2>1. DOMAIN tx[b] = {} /\ phase'[b] # "handling"
        /\ \A d \in Batch \ {b} : phase'[d] = phase[d]
    BY <1>2 DEF Poll, ZombieEnds, Core, TypeOK
  <2>2. {b} \in SUBSET Batch
    OBVIOUS
  <2> QED BY <2>1, <2>2, ThrowOut
<1> QED BY <1>1, <1>2

LEMMA NextCore == Core /\ GarbledNeverRun /\ [Next]_vars => Core'
<1> SUFFICES ASSUME Core, GarbledNeverRun, [Next]_vars PROVE Core'
  OBVIOUS
<1>0. TypeOK' /\ Grows
  BY NextTypes, NextGrows DEF Core
<1>1. ASSUME NEW j \in Job, Enqueue(j) \/ BecomeDue(j) PROVE Core'
  BY <1>0, <1>1, StepJob
<1>2. ASSUME NEW p \in Process, Crash(p) PROVE Core'
  BY <1>0, <1>2, StepCrash
<1>3. ASSUME NEW p \in Process, Start(p) \/ Stop(p) \/ \E j \in Job : Register(p, j)
      PROVE  Core'
  <2>1. UNCHANGED <<jobs, tx, todo, cur, ran, phase>>
    BY <1>3 DEF Start, Stop, Register, table, worker, history
  <2> QED BY <1>0, <2>1, StepQuiet
<1>4. ASSUME NEW b \in Batch, Poll(b) \/ ZombieEnds(b) PROVE Core'
  <2>1. UNCHANGED <<jobs, tx, todo, cur, ran>>
    BY <1>4 DEF Poll, ZombieEnds, Won, Lost, table, history
  <2> QED BY <1>0, <1>4, <2>1, StepQuiet
<1>5. ASSUME NEW b \in Batch, Claim(b) \/ Commit(b) PROVE Core'
  BY <1>0, <1>5, StepClaim, StepCommit
<1>6. ASSUME NEW b \in Batch, NEW j \in Job,
             NoHandler(b, j) \/ CallHandler(b, j) \/ PayloadThrows(b, j)
      PROVE  Core'
  BY <1>0, <1>6, StepNoHandler, StepCallHandler, StepPayloadThrows
<1>7. ASSUME NEW b \in Batch, HandlerFulfils(b) \/ HandlerRejects(b) \/ DoneReplyLate(b)
      PROVE  Core'
  BY <1>0, <1>7, StepSettle
<1>8. ASSUME NEW b \in Batch,
             \/ QueryFails(b) \/ OutcomeQueryFails(b)
             \/ HandlerRejectsWithoutReason(b) \/ SessionLost(b)
      PROVE  Core'
  BY <1>0, <1>8, StepRollBack
<1>9. CASE UNCHANGED vars
  BY <1>0, <1>9, StepQuiet DEF vars, table, worker, history
<1> QED
  BY <1>1, <1>2, <1>3, <1>4, <1>5, <1>6, <1>7, <1>8, <1>9 DEF Next, Settle

-----------------------------------------------------------------------------
(* Jobs with a payload that cannot be parsed are not executed.             *)
LEMMA InitGarbled == Init => GarbledNeverRun
<1> SUFFICES ASSUME Init PROVE GarbledNeverRun
  OBVIOUS
<1>1. garbled \subseteq Job
  BY GarbledAssumption DEF Init
<1> QED BY <1>1 DEF Init, GarbledNeverRun

LEMMA NextGarbled ==
  TypeOK /\ GarbledNeverRun /\ [Next]_vars => GarbledNeverRun'
<1> SUFFICES ASSUME TypeOK, GarbledNeverRun, [Next]_vars PROVE GarbledNeverRun'
  OBVIOUS
<1>0. /\ phase \in [Batch -> {"idle", "connected", "open", "handling", "zombie"}]
      /\ garbled \subseteq Job /\ ran \in [Job -> 0 .. MaxRuns] /\ cur \in [Batch -> Job]
  BY GarbledAssumption DEF TypeOK
<1>1. ASSUME NEW j \in Job, Enqueue(j) \/ BecomeDue(j) PROVE GarbledNeverRun'
  BY <1>1 DEF Enqueue, BecomeDue, worker, process, given, history, GarbledNeverRun
<1>2. ASSUME NEW p \in Process, Start(p) \/ Stop(p) \/ \E j \in Job : Register(p, j)
      PROVE  GarbledNeverRun'
  BY <1>2 DEF Start, Stop, Register, worker, given, history, GarbledNeverRun
<1>3. ASSUME NEW p \in Process, Crash(p) PROVE GarbledNeverRun'
  BY <1>3 DEF Crash, given, history, GarbledNeverRun
<1>4. ASSUME NEW b \in Batch, Poll(b) \/ Claim(b) \/ Commit(b) \/ QueryFails(b)
      PROVE  GarbledNeverRun'
  BY <1>0, <1>4
  DEF Poll, Claim, Commit, QueryFails, RollBack, process, given, history, GarbledNeverRun
<1>5. ASSUME NEW b \in Batch, NEW j \in Job, NoHandler(b, j) \/ PayloadThrows(b, j)
      PROVE  GarbledNeverRun'
  BY <1>5 DEF NoHandler, PayloadThrows, Lost, process, given, history, GarbledNeverRun
<1>6. ASSUME NEW b \in Batch, NEW j \in Job, CallHandler(b, j) PROVE GarbledNeverRun'
  <2>1. /\ j \notin garbled /\ cur'[b] = j
        /\ \A d \in Batch \ {b} : phase'[d] = phase[d] /\ cur'[d] = cur[d]
        /\ \A k \in garbled : ran'[k] = ran[k]
        /\ wins' = wins /\ garbled' = garbled
    BY <1>0, <1>6 DEF CallHandler, process, given
  <2> QED BY <2>1 DEF GarbledNeverRun
<1>7. ASSUME NEW b \in Batch,
             Settle(b) \/ DoneReplyLate(b) \/ OutcomeQueryFails(b) \/ ZombieEnds(b)
      PROVE  GarbledNeverRun'
  <2>1. /\ phase[b] \in {"handling", "zombie"}
        /\ Won(cur[b]) \/ Lost(cur[b])
        /\ phase'[b] \in {"open", "idle"}
        /\ \A d \in Batch \ {b} : phase'[d] = phase[d]
        /\ cur' = cur /\ garbled' = garbled
    BY <1>0, <1>7
    DEF Settle, HandlerFulfils, HandlerRejects, HandlerRejectsWithoutReason,
        DoneReplyLate, OutcomeQueryFails, ZombieEnds, RollBack, process, given
  <2>2. cur[b] \notin garbled
    BY <2>1 DEF GarbledNeverRun
  <2> QED BY <2>1, <2>2 DEF Won, Lost, GarbledNeverRun
<1>8. ASSUME NEW b \in Batch, SessionLost(b) PROVE GarbledNeverRun'
  <2>1. /\ phase[b] = "handling" /\ \A d \in Batch \ {b} : phase'[d] = phase[d]
        /\ UNCHANGED <<cur, garbled, ran, wins>>
    BY <1>0, <1>8 DEF SessionLost, process, given, history
  <2> QED BY <2>1 DEF GarbledNeverRun
<1>9. CASE UNCHANGED vars
  BY <1>9 DEF vars, worker, process, given, history, GarbledNeverRun
<1> QED
  BY <1>1, <1>2, <1>3, <1>4, <1>5, <1>6, <1>7, <1>8, <1>9 DEF Next

LEMMA Invariant == Spec => [](Core /\ GarbledNeverRun)
<1>1. Init => Core /\ GarbledNeverRun
  BY InitCore, InitGarbled
<1>2. Core /\ GarbledNeverRun /\ [Next]_vars => (Core /\ GarbledNeverRun)'
  BY NextCore, NextGarbled DEF Core
<1> QED BY <1>1, <1>2, PTL DEF Spec

(* The queue's invariant: types and locks; no row is left in `processing'; *)
(* a row has one owner; a row that counts n attempts has failed n times,   *)
(* in its handler or before it was called, and a `done' row has succeeded; *)
(* a job whose payload cannot be parsed is never executed; and a job is    *)
(* executed more than MaxAttempts times only at the cost of faults.        *)
THEOREM Invariance == Spec => []QueueSafety
  BY Invariant, CoreSuffices, PTL

-----------------------------------------------------------------------------
(* Ended jobs are left alone: they are not claimed, so no batch holds them *)
(* when it calls a handler or commits.                                     *)
THEOREM EndOnce == Spec => EndsOnce
<1>1. ASSUME Core, [Next]_vars, NEW j \in Job, jobs[j].status \in Terminal
      PROVE  jobs'[j] = jobs[j] /\ ran'[j] = ran[j]
  <2>1. jobs[j].status # "pending" /\ jobs[j].status # "absent"
    BY <1>1 DEF Terminal
  <2>2. \A b \in Batch : j \notin DOMAIN tx[b] /\ j \notin todo[b]
    BY <1>1, <2>1 DEF Core, BatchesAreTrue, TypeOK
  <2>3. ASSUME NEW i \in Job, Enqueue(i) \/ BecomeDue(i)
        PROVE  jobs'[j] = jobs[j] /\ ran'[j] = ran[j]
    BY <1>1, <2>1, <2>3 DEF Enqueue, BecomeDue, Core, TypeOK, history
  <2>4. ASSUME NEW b \in Batch, NEW i \in Job, CallHandler(b, i)
        PROVE  jobs'[j] = jobs[j] /\ ran'[j] = ran[j]
    BY <1>1, <2>2, <2>4 DEF CallHandler, Core, TypeOK, table
  <2>5. ASSUME NEW b \in Batch, Commit(b)
        PROVE  jobs'[j] = jobs[j] /\ ran'[j] = ran[j]
    BY <1>1, <2>2, <2>5 DEF Commit, Core, TypeOK, history
  <2>6. ASSUME NEW p \in Process,
               Start(p) \/ Stop(p) \/ Crash(p) \/ \E i \in Job : Register(p, i)
        PROVE  jobs'[j] = jobs[j] /\ ran'[j] = ran[j]
    BY <2>6 DEF Start, Stop, Crash, Register, table, history
  <2>7. ASSUME NEW b \in Batch,
               \/ Poll(b) \/ Claim(b) \/ Settle(b)
               \/ \E i \in Job : NoHandler(b, i) \/ PayloadThrows(b, i)
               \/ DoneReplyLate(b) \/ QueryFails(b) \/ OutcomeQueryFails(b)
               \/ SessionLost(b) \/ ZombieEnds(b)
        PROVE  jobs'[j] = jobs[j] /\ ran'[j] = ran[j]
    <3>1. jobs' = jobs
      BY <2>7
      DEF Poll, Claim, TableAfterClaim, Settle, HandlerFulfils, HandlerRejects,
          HandlerRejectsWithoutReason, NoHandler, PayloadThrows, DoneReplyLate,
          QueryFails, OutcomeQueryFails, SessionLost, ZombieEnds, RollBack, table
    <3>2. ran' = ran
      BY <2>7
      DEF Poll, Claim, Settle, HandlerFulfils, HandlerRejects,
          HandlerRejectsWithoutReason, NoHandler, PayloadThrows, DoneReplyLate,
          QueryFails, OutcomeQueryFails, SessionLost, ZombieEnds, Won, Lost, history
    <3> QED BY <3>1, <3>2
  <2>8. CASE UNCHANGED vars
    BY <2>8 DEF vars, table, history
  <2> QED
    BY <1>1, <2>3, <2>4, <2>5, <2>6, <2>7, <2>8 DEF Next
<1>2. Core /\ [Next]_vars =>
        [\A j \in Job : jobs[j].status \in Terminal =>
            jobs'[j] = jobs[j] /\ ran'[j] = ran[j]]_vars
  BY <1>1
<1> QED BY <1>2, Invariant, PTL DEF Spec, EndsOnce

-----------------------------------------------------------------------------
(* The queue implements JobLifecycle: a commit reports the outcomes of its *)
(* batch, the end of an attempt is a Win or a Loss that nobody sees yet (a *)
(* payload that cannot be parsed is a Loss without an execution), and      *)
(* every other step but Enqueue is invisible.                              *)
LEMMA Invisible ==
  ASSUME UNCHANGED <<jobs, wins, losses>>
  PROVE  UNCHANGED Lifecycle!vars
  BY DEF Lifecycle!vars

LEMMA Execution ==
  ASSUME Core, NEW j \in Job, Won(j) \/ Lost(j), jobs' = jobs
  PROVE  Lifecycle!Next
<1>1. CASE Won(j)
  BY <1>1 DEF Won, Lifecycle!Next, Lifecycle!Win
<1>2. CASE Lost(j)
  BY <1>2 DEF Lost, Lifecycle!Next, Lifecycle!Lose
<1> QED BY <1>1, <1>2

LEMMA CommitReports ==
  ASSUME Core, TypeOK', NEW b \in Batch, Commit(b)
  PROVE  Lifecycle!Report
<1>1. ASSUME NEW j \in Job
      PROVE  \/ jobs'[j].status = jobs[j].status /\ jobs'[j].attempts = jobs[j].attempts
             \/ /\ jobs[j].status = "pending"
                /\ Lifecycle!May(j, jobs'[j].status, jobs'[j].attempts)
  <2>1. CASE j \in DOMAIN tx[b]
    <3>1. jobs'[j] = tx[b][j] /\ j \notin Unhandled(b)
      BY <2>1, AllHandled
    <3>2. jobs[j].status = "pending" /\ Lifecycle!May(j, tx[b][j].status, tx[b][j].attempts)
      BY <2>1, <3>1 DEF Core, BatchesAreTrue
    <3> QED BY <3>1, <3>2
  <2>2. CASE j \notin DOMAIN tx[b]
    BY <2>2, AllHandled
  <2> QED BY <2>1, <2>2
<1>2. UNCHANGED <<wins, losses>>
  BY AllHandled
<1> QED BY <1>1, <1>2 DEF Lifecycle!Report

THEOREM Refinement == Spec => Implements
<1>1. Init => Lifecycle!Init
  BY DEF Init, Lifecycle!Init
<1>2. Core /\ [Next]_vars => [Lifecycle!Next]_(Lifecycle!vars)
  <2> SUFFICES ASSUME Core, [Next]_vars PROVE [Lifecycle!Next]_(Lifecycle!vars)
    OBVIOUS
  <2>0. TypeOK' /\ \A b \in Batch : cur[b] \in Job
    BY NextTypes DEF Core, TypeOK
  <2>1. ASSUME NEW j \in Job, Enqueue(j) PROVE Lifecycle!Enqueue(j)
    <3>1. PICK due \in BOOLEAN :
            jobs' = [jobs EXCEPT ![j] = [status |-> "pending", attempts |-> 0, due |-> due]]
      BY <2>1 DEF Enqueue
    <3>2. /\ jobs[j].status = "absent" /\ jobs[j].attempts = 0
          /\ UNCHANGED <<wins, losses>> /\ DOMAIN jobs = Job
      BY <2>1 DEF Enqueue, history, Core, EveryRunCounted, TypeOK
    <3>3. \A i \in Job : /\ jobs'[i].attempts = jobs[i].attempts
                         /\ jobs'[i].status = IF i = j THEN "pending" ELSE jobs[i].status
      BY <3>1, <3>2
    <3> QED BY <3>2, <3>3 DEF Lifecycle!Enqueue
  <2>2. ASSUME NEW j \in Job, BecomeDue(j) PROVE UNCHANGED Lifecycle!vars
    <3>1. /\ jobs' = [jobs EXCEPT ![j] = [jobs[j] EXCEPT !.due = TRUE]]
          /\ UNCHANGED <<wins, losses>> /\ DOMAIN jobs = Job /\ jobs[j] \in Row
      BY <2>2 DEF BecomeDue, history, Core, TypeOK
    <3>2. \A i \in Job : /\ jobs'[i].attempts = jobs[i].attempts
                         /\ jobs'[i].status = jobs[i].status
      BY <3>1 DEF Row
    <3> QED BY <3>1, <3>2 DEF Lifecycle!vars
  <2>3. ASSUME NEW p \in Process,
               Start(p) \/ Stop(p) \/ Crash(p) \/ \E i \in Job : Register(p, i)
        PROVE  UNCHANGED Lifecycle!vars
    BY <2>3, Invisible DEF Start, Stop, Crash, Register, table, history
  <2>4. ASSUME NEW b \in Batch,
               \/ Poll(b) \/ Claim(b) \/ QueryFails(b) \/ SessionLost(b)
               \/ \E i \in Job : NoHandler(b, i) \/ CallHandler(b, i)
        PROVE  UNCHANGED Lifecycle!vars
    BY <2>4, Invisible
    DEF Poll, Claim, TableAfterClaim, QueryFails, SessionLost, NoHandler,
        CallHandler, RollBack, table, history
  <2>5. ASSUME NEW b \in Batch,
               \/ Settle(b) \/ DoneReplyLate(b) \/ OutcomeQueryFails(b) \/ ZombieEnds(b)
        PROVE  Lifecycle!Next
    <3>1. (Won(cur[b]) \/ Lost(cur[b])) /\ jobs' = jobs
      BY <2>5
      DEF Settle, HandlerFulfils, HandlerRejects, HandlerRejectsWithoutReason,
          DoneReplyLate, OutcomeQueryFails, ZombieEnds, RollBack, table
    <3> QED BY <2>0, <3>1, Execution
  <2>6. ASSUME NEW b \in Batch, Commit(b) PROVE Lifecycle!Next
    BY <2>0, <2>6, CommitReports DEF Lifecycle!Next
  <2>7. ASSUME NEW b \in Batch, NEW j \in Job, PayloadThrows(b, j) PROVE Lifecycle!Next
    BY <2>7, Execution DEF PayloadThrows
  <2>8. CASE UNCHANGED vars
    BY <2>8, Invisible DEF vars, table, history
  <2> QED
    BY <2>1, <2>2, <2>3, <2>4, <2>5, <2>6, <2>7, <2>8 DEF Next, Lifecycle!Next
<1> QED BY <1>1, <1>2, Invariant, PTL DEF Spec, Implements, Lifecycle!Spec
=============================================================================
