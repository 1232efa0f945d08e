---------------------------- MODULE ServiceProofs ---------------------------
(***************************************************************************)
(* Proofs about Migrations, Health, Scheduler, Graceful, FeatureFlags,     *)
(* Validator, Config, Http and Retry, for every number of files, processes *)
(* and releases, of checkers, jobs and hooks, fields, flags and entities,  *)
(* for every timeout, and for all options of a retried call.               *)
(*                                                                         *)
(* Each of them has an inductive invariant of its own; as MCService takes  *)
(* its steps from one of them and leaves the others alone, it keeps all.   *)
(***************************************************************************)
EXTENDS MCService, Integers, Sequences, WellFoundedInduction, TLAPS

-----------------------------------------------------------------------------
(* Migrations.                                                             *)

MigrationsInv == TypeOK /\ EffectsOnce /\ InOrder /\ ReturnedMeansDone /\ LoopTrue

LEMMA FilesAreNumbers ==
    /\ NMigrations \in Nat /\ MaxFaults \in Nat
    /\ \A p \in Process : Newest[p] \in Nat /\ Newest[p] <= NMigrations
  BY MigrationsAssumption, NewestAssumption, FaultsAssumption

LEMMA FileTypes ==
    ASSUME TypeOK, NEW p \in Process
    PROVE  /\ file[p] \in Nat /\ file[p] >= 1
           /\ file[p] <= Newest[p] => file[p] \in Migration /\ file[p] + 1 \in 1 .. NMigrations + 1
  BY FilesAreNumbers DEF TypeOK, Migration

LEMMA FaultType == ASSUME TypeOK, Fault PROVE faults' \in 0 .. MaxFaults
<1>1. faults \in 0 .. MaxFaults
  BY DEF TypeOK
<1>2. QED
  BY <1>1, FilesAreNumbers DEF Fault

LEMMA InitMigrations == Init => MigrationsInv
<1> SUFFICES ASSUME Init PROVE MigrationsInv
  OBVIOUS
<1>1. TypeOK
  BY FilesAreNumbers DEF Init, TypeOK, Nothing
<1>2. EffectsOnce /\ InOrder /\ ReturnedMeansDone /\ LoopTrue
  BY DEF Init, EffectsOnce, InOrder, ReturnedMeansDone, LoopTrue, Nothing
<1>3. QED
  BY <1>1, <1>2 DEF MigrationsInv

(* The transaction of p takes effect: it is the first of its file, and the *)
(* files before are applied.                                               *)
LEMMA Applied ==
    ASSUME MigrationsInv, NEW p \in Process, phase[p] = "migrating", tx[p].row, Apply(p)
    PROVE  /\ file[p] \in Migration /\ file[p] \notin table
           /\ table' = table \cup {file[p]} /\ table' \subseteq Migration
           /\ effects' \in [Migration -> Nat] /\ EffectsOnce'
           /\ tx' = [tx EXCEPT ![p] = Nothing]
           /\ \A m \in table' : \A k \in Migration : k < m => k \in table'
<1>1. TypeOK /\ EffectsOnce /\ InOrder /\ LoopTrue
  BY DEF MigrationsInv
<1>2. file[p] <= Newest[p] /\ tx[p].sql /\ file[p] \notin table
      /\ \A k \in Migration : k < file[p] => k \in table
  BY <1>1 DEF LoopTrue
<1>3. file[p] \in Migration
  BY <1>1, <1>2, FileTypes
<1>4. table' = table \cup {file[p]} /\ table' \subseteq Migration
      /\ tx' = [tx EXCEPT ![p] = Nothing]
  BY <1>1, <1>3 DEF Apply, TypeOK
<1>5. effects[file[p]] = 0
  BY <1>1, <1>2, <1>3 DEF EffectsOnce
<1>6. effects' = [effects EXCEPT ![file[p]] = 1]
  BY <1>2, <1>5 DEF Apply
<1>7. effects' \in [Migration -> Nat] /\ EffectsOnce'
  BY <1>1, <1>3, <1>4, <1>6 DEF TypeOK, EffectsOnce
<1>8. QED
  BY <1>1, <1>2, <1>3, <1>4, <1>7 DEF InOrder

LEMMA NextMigrations == MigrationsInv /\ [Next]_vars => MigrationsInv'
<1> SUFFICES ASSUME MigrationsInv, [Next]_vars PROVE MigrationsInv'
  OBVIOUS
<1> USE DEF database, worker
<1>1. TypeOK /\ EffectsOnce /\ InOrder /\ ReturnedMeansDone /\ LoopTrue
  BY DEF MigrationsInv
<1>2. ASSUME NEW p \in Process, ReadApplied(p) PROVE MigrationsInv'
  <2>1. TypeOK'
    BY <1>1, <1>2, FilesAreNumbers DEF ReadApplied, TypeOK
  <2>2. EffectsOnce' /\ InOrder' /\ ReturnedMeansDone'
    BY <1>1, <1>2 DEF ReadApplied, TypeOK, EffectsOnce, InOrder, ReturnedMeansDone
  <2>3. tx[p] = Nothing /\ file'[p] = 1 /\ tx' = tx /\ table' = table
        /\ \A q \in Process \ {p} : file'[q] = file[q] /\ phase'[q] = phase[q]
    BY <1>1, <1>2 DEF ReadApplied, TypeOK
  <2>4. \A k \in Migration : ~(k < 1)
    BY DEF Migration
  <2>5. LoopTrue'
    BY <1>1, <1>2, <2>3, <2>4 DEF ReadApplied, LoopTrue, TypeOK, Nothing
  <2>6. QED
    BY <2>1, <2>2, <2>5 DEF MigrationsInv
<1>3. ASSUME NEW p \in Process, Skip(p) PROVE MigrationsInv'
  <2>1. file[p] \in table /\ file[p] \in Migration /\ file[p] + 1 \in 1 .. NMigrations + 1
    BY <1>1, <1>3, FileTypes DEF Skip, IsApplied, InOrder
  <2>2. TypeOK'
    BY <1>1, <1>3, <2>1 DEF Skip, TypeOK
  <2>3. EffectsOnce' /\ InOrder' /\ ReturnedMeansDone'
    BY <1>1, <1>3 DEF Skip, EffectsOnce, InOrder, ReturnedMeansDone
  <2>4. tx[p] = Nothing /\ file'[p] = file[p] + 1 /\ tx' = tx /\ table' = table
        /\ phase' = phase /\ \A q \in Process \ {p} : file'[q] = file[q]
    BY <1>1, <1>3 DEF Skip, TypeOK
  <2>5. \A k \in Migration : k < file[p] + 1 => k < file[p] \/ k = file[p]
    BY <2>1 DEF Migration
  <2>6. LoopTrue'
    BY <1>1, <1>3, <2>1, <2>4, <2>5 DEF Skip, LoopTrue, Nothing
  <2>7. QED
    BY <2>2, <2>3, <2>6 DEF MigrationsInv
<1>4. ASSUME NEW p \in Process, Return(p) PROVE MigrationsInv'
  <2>1. 1 .. Newest[p] \subseteq table
    <3>1. \A k \in 1 .. Newest[p] : k \in Migration /\ k < file[p]
      BY <1>1, <1>4, FilesAreNumbers, FileTypes DEF Return, Migration
    <3>2. QED
      BY <1>1, <1>4, <3>1 DEF Return, LoopTrue
  <2>2. TypeOK'
    BY <1>1, <1>4 DEF Return, TypeOK
  <2>3. EffectsOnce' /\ InOrder' /\ ReturnedMeansDone'
    BY <1>1, <1>4, <2>1 DEF Return, TypeOK, EffectsOnce, InOrder, ReturnedMeansDone
  <2>4. LoopTrue'
    BY <1>1, <1>4 DEF Return, LoopTrue, TypeOK
  <2>5. QED
    BY <2>2, <2>3, <2>4 DEF MigrationsInv
<1>5. ASSUME NEW p \in Process, RunSql(p) PROVE MigrationsInv'
  <2>1. TypeOK'
    BY <1>1, <1>5 DEF RunSql, TypeOK
  <2>2. EffectsOnce' /\ InOrder' /\ ReturnedMeansDone'
    BY <1>1, <1>5 DEF RunSql, TypeOK, EffectsOnce, InOrder, ReturnedMeansDone
  <2>3. /\ tx[p] = Nothing /\ tx'[p].sql /\ ~tx'[p].row
        /\ \A q \in Process \ {p} : tx'[q] = tx[q] /\ phase'[q] = phase[q]
    BY <1>1, <1>5 DEF RunSql, TypeOK, Nothing
  <2>4. LoopTrue'
    BY <1>1, <1>5, <2>3 DEF RunSql, LoopTrue
  <2>5. QED
    BY <2>1, <2>2, <2>4 DEF MigrationsInv
<1>6. ASSUME NEW p \in Process, InsertVersion(p) PROVE MigrationsInv'
  <2>1. TypeOK'
    BY <1>1, <1>6 DEF InsertVersion, TypeOK
  <2>2. EffectsOnce' /\ InOrder' /\ ReturnedMeansDone'
    BY <1>1, <1>6 DEF InsertVersion, EffectsOnce, InOrder, ReturnedMeansDone
  <2>3. /\ tx'[p].sql = tx[p].sql /\ \A q \in Process \ {p} : tx'[q] = tx[q]
    BY <1>1, <1>6 DEF InsertVersion, TypeOK
  <2>4. file[p] \notin table /\ \A q \in Process \ {p} : tx[q].row => file[q] # file[p]
    BY <1>6 DEF InsertVersion, KeyIsFree, HeldByOther
  <2>5. LoopTrue'
    BY <1>1, <1>6, <2>3, <2>4 DEF InsertVersion, LoopTrue
  <2>6. QED
    BY <2>1, <2>2, <2>5 DEF MigrationsInv
<1>7. ASSUME NEW p \in Process, Commit(p) \/ CommitReplyLost(p) PROVE MigrationsInv'
  <2>1. phase[p] = "migrating" /\ tx[p].row /\ Apply(p) /\ applied' = applied
    BY <1>7 DEF Commit, CommitReplyLost
  <2>2. /\ file[p] \in Migration /\ file[p] \notin table
        /\ table' = table \cup {file[p]} /\ table' \subseteq Migration
        /\ effects' \in [Migration -> Nat] /\ EffectsOnce'
        /\ tx' = [tx EXCEPT ![p] = Nothing]
        /\ \A m \in table' : \A k \in Migration : k < m => k \in table'
    BY <2>1, Applied
  <2>3. faults' \in 0 .. MaxFaults
    BY <1>1, <1>7, FaultType DEF Commit, CommitReplyLost, TypeOK
  <2>4. file[p] <= Newest[p] /\ \A k \in Migration : k < file[p] => k \in table
    BY <1>1, <2>1 DEF LoopTrue
  <2>5. file[p] + 1 \in 1 .. NMigrations + 1
    BY <1>1, <2>4, FileTypes
  <2>6. /\ \/ phase'[p] = "loop" /\ file'[p] = file[p] + 1
           \/ phase'[p] = "threw" /\ file'[p] = file[p]
        /\ \A q \in Process \ {p} :
             phase'[q] = phase[q] /\ file'[q] = file[q] /\ tx'[q] = tx[q]
        /\ tx'[p] = Nothing
    BY <1>1, <1>7, <2>2 DEF Commit, CommitReplyLost, Throws, TypeOK
  <2>7. TypeOK'
    BY <1>1, <1>7, <2>1, <2>2, <2>3, <2>5
    DEF Commit, CommitReplyLost, Throws, TypeOK, Nothing
  <2>8. InOrder' /\ ReturnedMeansDone'
    BY <1>1, <2>1, <2>2, <2>6 DEF InOrder, ReturnedMeansDone
  <2>9. \A k \in Migration : k < file[p] + 1 => k \in table'
    <3>1. \A k \in Migration : k < file[p] + 1 => k < file[p] \/ k = file[p]
      BY <2>2 DEF Migration
    <3>2. QED
      BY <2>2, <2>4, <3>1
  <2>10. \A q \in Process \ {p} : tx[q].row => file[q] # file[p]
    BY <1>1, <2>1 DEF LoopTrue
  <2>11. LoopTrue'
    BY <1>1, <2>2, <2>6, <2>9, <2>10 DEF LoopTrue, Nothing
  <2>12. QED
    BY <2>2, <2>7, <2>8, <2>11 DEF MigrationsInv
<1>8. ASSUME NEW p \in Process, UniqueViolation(p) \/ StatementFails(p)
      PROVE  MigrationsInv'
  <2>1. faults' \in 0 .. MaxFaults
    BY <1>1, <1>8, FaultType DEF UniqueViolation, StatementFails, TypeOK
  <2>2. /\ tx' = [tx EXCEPT ![p] = Nothing] /\ phase' = [phase EXCEPT ![p] = "threw"]
        /\ UNCHANGED <<table, effects, file, applied>>
    BY <1>8 DEF UniqueViolation, StatementFails, RollBack, Throws
  <2>3. TypeOK'
    BY <1>1, <2>1, <2>2 DEF TypeOK, Nothing
  <2>4. EffectsOnce' /\ InOrder' /\ ReturnedMeansDone'
    BY <1>1, <2>2 DEF TypeOK, EffectsOnce, InOrder, ReturnedMeansDone
  <2>5. LoopTrue'
    BY <1>1, <2>2 DEF TypeOK, LoopTrue, Nothing
  <2>6. QED
    BY <2>3, <2>4, <2>5 DEF MigrationsInv
<1>9. CASE UNCHANGED vars
  BY <1>1, <1>9 DEF vars, MigrationsInv, TypeOK, EffectsOnce, InOrder, ReturnedMeansDone,
    LoopTrue
<1>10. QED
  BY <1>2, <1>3, <1>4, <1>5, <1>6, <1>7, <1>8, <1>9 DEF Next, Step

-----------------------------------------------------------------------------
(* Health.                                                                 *)

HealthInv == H!TypeOK /\ H!TrueOnlyIfHealthy /\ H!FalseOnlyIfUnhealthy

LEMMA CheckersAreNumbers == Checkers \in Nat /\ H!Checker \subseteq Nat
  BY HealthAssumption DEF H!CheckersAssumption, H!Checker

LEMMA AskedAreCheckers ==
    ASSUME H!TypeOK, NEW k \in HealthCall
    PROVE  snapshot[k] \in Nat /\ H!Asked(k) \subseteq H!Checker
  BY CheckersAreNumbers DEF H!TypeOK, H!Asked, H!Checker

LEMMA InitHealth == H!Init => HealthInv
<1> SUFFICES ASSUME H!Init PROVE HealthInv
  OBVIOUS
<1>1. H!TypeOK
  BY CheckersAreNumbers DEF H!Init, H!TypeOK, H!Answered
<1>2. H!TrueOnlyIfHealthy /\ H!FalseOnlyIfUnhealthy
  BY DEF H!Init, H!TrueOnlyIfHealthy, H!FalseOnlyIfUnhealthy
<1>3. QED
  BY <1>1, <1>2 DEF HealthInv

(* What is said of an answered call stands while nothing of it changes.    *)
LEMMA AnswersKept ==
    ASSUME HealthInv,
           \A k \in HealthCall : report'[k] \in {"true", "false"} =>
               /\ report'[k] = report[k] /\ snapshot'[k] = snapshot[k]
               /\ settled'[k] = settled[k]
    PROVE  H!TrueOnlyIfHealthy' /\ H!FalseOnlyIfUnhealthy'
  BY DEF HealthInv, H!TrueOnlyIfHealthy, H!FalseOnlyIfUnhealthy, H!Asked

LEMMA NextHealth == HealthInv /\ [H!Next]_healthVars => HealthInv'
<1> SUFFICES ASSUME HealthInv, [H!Next]_healthVars PROVE HealthInv'
  OBVIOUS
<1>1. H!TypeOK /\ H!TrueOnlyIfHealthy /\ H!FalseOnlyIfUnhealthy
  BY DEF HealthInv
<1>2. CASE H!Register
  <2>1. registered' \in 0 .. Checkers
    BY <1>1, <1>2, CheckersAreNumbers DEF H!Register, H!TypeOK
  <2>2. H!TypeOK'
    BY <1>1, <1>2, <2>1 DEF H!Register, H!TypeOK, H!Answered
  <2>3. QED
    BY <1>2, <2>2, AnswersKept DEF H!Register, HealthInv
<1>3. ASSUME NEW k \in HealthCall, H!Ask(k) PROVE HealthInv'
  <2>1. /\ snapshot'[k] = registered /\ report'[k] = "waiting"
        /\ \A j \in HealthCall \ {k} : snapshot'[j] = snapshot[j] /\ report'[j] = report[j]
        /\ \A c \in H!Checker : settled[k][c] = "none"
    BY <1>1, <1>3 DEF H!Ask, H!TypeOK
  <2>2. H!TypeOK'
    BY <1>1, <1>3, <2>1 DEF H!Ask, H!TypeOK, H!Answered
  <2>3. QED
    BY <1>3, <2>1, <2>2, AnswersKept DEF H!Ask, HealthInv
<1>4. ASSUME NEW k \in HealthCall, NEW c \in H!Checker, H!CheckSettles(k, c)
      PROVE  HealthInv'
  <2>1. PICK verdict \in {"healthy", "unhealthy", "rejected"} :
          settled' = [settled EXCEPT ![k][c] = verdict]
    BY <1>4 DEF H!CheckSettles, H!PingResults
  <2>2. /\ report[k] = "waiting" /\ c <= snapshot[k]
        /\ UNCHANGED <<registered, snapshot, report>>
    BY <1>1, <1>4, AskedAreCheckers DEF H!CheckSettles
  <2>3. /\ settled' \in [HealthCall -> [H!Checker ->
                           {"none", "healthy", "unhealthy", "rejected"}]]
        /\ \A d \in H!Checker : settled'[k][d] = IF d = c THEN verdict ELSE settled[k][d]
        /\ \A j \in HealthCall \ {k} : settled'[j] = settled[j]
    BY <1>1, <2>1 DEF H!TypeOK
  <2>4. ~(c > snapshot[k])
    BY <1>1, <2>2, AskedAreCheckers, CheckersAreNumbers
  <2>5. H!TypeOK'
    BY <1>1, <2>2, <2>3, <2>4 DEF H!TypeOK, H!Answered
  <2>6. QED
    BY <2>2, <2>3, <2>5, AnswersKept DEF HealthInv
<1>5. ASSUME NEW k \in HealthCall, H!Answer(k) PROVE HealthInv'
  <2>1. /\ report'[k] = IF H!Overall(k) THEN "true" ELSE "false"
        /\ \A j \in HealthCall \ {k} : report'[j] = report[j]
        /\ UNCHANGED <<registered, snapshot, settled>>
        /\ report' \in [HealthCall -> {"none", "waiting", "true", "false"}]
        /\ report[k] = "waiting"
    BY <1>1, <1>5 DEF H!Answer, H!TypeOK
  <2>2. \A c \in H!Checker : c <= snapshot[k] => settled[k][c] # "none"
    BY <1>5, CheckersAreNumbers DEF H!Answer, H!AllSettled, H!Asked, H!Checker
  <2>3. H!TypeOK'
    BY <1>1, <2>1, <2>2 DEF H!TypeOK, H!Answered
  <2>4. ASSUME H!Overall(k), NEW c \in H!Asked(k),
               \A d \in H!Asked(k) : d > c => CheckerName[d] # CheckerName[c]
        PROVE  settled[k][c] = "healthy"
    <3>1. c \in H!Namesakes(k, CheckerName[c])
      BY DEF H!Namesakes
    <3>2. \A d \in H!Namesakes(k, CheckerName[c]) : d <= c
      <4>1. \A d \in H!Asked(k) : d \in Nat
        BY <1>1, AskedAreCheckers, CheckersAreNumbers
      <4>2. \A d \in H!Namesakes(k, CheckerName[c]) : d \in H!Asked(k) /\ ~(d > c)
        BY <2>4 DEF H!Namesakes
      <4>3. QED
        BY <4>1, <4>2
    <3>3. CheckerName[c] \in H!Reported(k)
      BY <1>1, <3>1, AskedAreCheckers DEF H!Reported, H!Names
    <3>4. QED
      BY <2>4, <3>1, <3>2, <3>3 DEF H!Overall, H!Unhealthy
  <2>5. ASSUME ~H!Overall(k)
        PROVE  \E c \in H!Asked(k) : settled[k][c] \in {"unhealthy", "rejected"}
    <3>1. PICK c \in H!Asked(k) : settled[k][c] # "healthy"
      BY <2>5 DEF H!Overall, H!Unhealthy, H!Namesakes
    <3>2. settled[k][c] # "none"
      BY <1>5 DEF H!Answer, H!AllSettled
    <3>3. QED
      BY <1>1, <3>1, <3>2, AskedAreCheckers DEF H!TypeOK
  <2>6. H!TrueOnlyIfHealthy'
    BY <1>1, <2>1, <2>4 DEF H!TrueOnlyIfHealthy, H!Asked
  <2>7. H!FalseOnlyIfUnhealthy'
    BY <1>1, <2>1, <2>5 DEF H!FalseOnlyIfUnhealthy, H!Asked
  <2>8. QED
    BY <2>3, <2>6, <2>7 DEF HealthInv
<1>6. CASE UNCHANGED healthVars
  BY <1>6 DEF healthVars, HealthInv, H!TypeOK, H!Answered, H!TrueOnlyIfHealthy,
    H!FalseOnlyIfUnhealthy, H!Asked
<1>7. QED
  BY <1>2, <1>3, <1>4, <1>5, <1>6 DEF H!Next

-----------------------------------------------------------------------------
(* Scheduler.                                                              *)

SchedulerInv == J!TypeOK /\ J!OnceForEachStart /\ J!LoopAhead /\ J!StoppedIsIdle

LEMMA JobsAreNumbers ==
    /\ Jobs \in Nat /\ JobStarts \in Nat /\ JobOverlap \in Nat /\ JobOverlap > 0
    /\ J!Entry \subseteq Nat /\ J!Starts \subseteq Nat
  BY SchedulerAssumption DEF J!JobsAssumption, J!Entry, J!Starts

LEMMA TimerTypes ==
    ASSUME J!TypeOK
    PROVE  /\ Len(once) \in Nat /\ Len(once) <= Jobs
           /\ loop \in Nat /\ starts \in Nat
           /\ \A e \in J!Entry : active[e] \in Nat /\ active[e] <= JobOverlap
           /\ \A e \in J!Entry, s \in J!Starts : [entry |-> e, start |-> s] \in J!Timer
           /\ \A t \in timers : /\ t.entry \in J!Entry /\ t.start \in J!Starts
                                /\ t = [entry |-> t.entry, start |-> t.start]
           /\ pending \subseteq timers
  BY JobsAreNumbers DEF J!TypeOK, J!Timer

LEMMA InitScheduler == J!Init => SchedulerInv
<1> SUFFICES ASSUME J!Init PROVE SchedulerInv
  OBVIOUS
<1>1. once \in Seq(BOOLEAN) /\ Len(once) = 0
  BY DEF J!Init
<1>2. J!TypeOK
  <2>1. 0 \in 0 .. Jobs + 1 /\ 0 \in 0 .. JobStarts /\ 0 \in 0 .. JobOverlap /\ 0 <= Jobs
    BY JobsAreNumbers
  <2>2. QED
    BY <1>1, <2>1 DEF J!Init, J!TypeOK
<1>3. J!OnceForEachStart /\ J!LoopAhead /\ J!StoppedIsIdle
  BY <1>1 DEF J!Init, J!OnceForEachStart, J!LoopAhead, J!StoppedIsIdle
<1>4. QED
  BY <1>2, <1>3 DEF SchedulerInv

(* The entry that start() has come to is dispatched for the first time,    *)
(* and there is room for its handler.                                      *)
LEMMA AtAnEntry ==
    ASSUME SchedulerInv, J!AtEntry
    PROVE  /\ loop \in J!Entry /\ starts \in J!Starts /\ loop > 0 /\ loop <= Len(once)
           /\ loop + 1 \in 0 .. Jobs + 1
           /\ active[loop] + 1 \in 0 .. JobOverlap
           /\ ~dispatched[loop][starts]
<1>1. J!TypeOK /\ J!LoopAhead
  BY DEF SchedulerInv
<1>2. loop > 0 /\ loop <= Len(once) /\ loop \in J!Entry /\ loop + 1 \in 0 .. Jobs + 1
  BY <1>1, TimerTypes, JobsAreNumbers DEF J!AtEntry, J!Entry
<1>3. starts \in J!Starts
  BY <1>1, <1>2, JobsAreNumbers DEF J!LoopAhead, J!TypeOK, J!Starts
<1>4. active[loop] < JobOverlap /\ ~dispatched[loop][starts]
  <2>1. loop >= loop
    BY <1>1, TimerTypes
  <2>2. QED
    BY <1>1, <1>2, <2>1 DEF J!LoopAhead, J!Room
<1>5. QED
  BY <1>1, <1>2, <1>3, <1>4, TimerTypes, JobsAreNumbers

LEMMA NextScheduler == SchedulerInv /\ [J!Next]_schedVars => SchedulerInv'
<1> SUFFICES ASSUME SchedulerInv, [J!Next]_schedVars PROVE SchedulerInv'
  OBVIOUS
<1>1. J!TypeOK /\ J!OnceForEachStart /\ J!LoopAhead /\ J!StoppedIsIdle
  BY DEF SchedulerInv
<1>2. CASE J!Add
  <2>1. PICK o \in BOOLEAN : once' = Append(once, o)
    BY <1>2 DEF J!Add
  <2>2. /\ once' \in Seq(BOOLEAN) /\ Len(once') = Len(once) + 1
        /\ \A e \in 1 .. Len(once) : once'[e] = once[e]
    BY <1>1, <2>1 DEF J!TypeOK
  <2>3. Len(once) + 1 <= Jobs
    BY <1>1, <1>2, TimerTypes, JobsAreNumbers DEF J!Add
  <2>4. J!TypeOK'
    BY <1>1, <1>2, <2>2, <2>3 DEF J!Add, J!TypeOK
  <2>5. \A t \in timers : t.entry \in 1 .. Len(once)
    BY <1>1, TimerTypes DEF J!LoopAhead, J!Entry
  <2>6. J!OnceForEachStart'
    BY <1>1, <1>2, <2>2, <2>5, TimerTypes DEF J!Add, J!OnceForEachStart
  <2>7. \A t \in timers : t.entry <= Len(once')
    BY <1>1, <2>2, <2>5, TimerTypes
  <2>8. loop' <= Len(once')
    BY <1>1, <1>2, <2>2, TimerTypes DEF J!LoopAhead, J!Add
  <2>9. loop' <= Len(once') + 1
    BY <1>1, <1>2, <2>2, TimerTypes DEF J!LoopAhead, J!Add
  <2>10. J!LoopAhead' /\ J!StoppedIsIdle'
    BY <1>1, <1>2, <2>7, <2>9 DEF J!Add, J!LoopAhead, J!StoppedIsIdle, J!Room
  <2>11. QED
    BY <2>4, <2>6, <2>10 DEF SchedulerInv
<1>3. CASE J!Start
  <2>1. starts' = starts + 1 /\ starts' \in J!Starts /\ starts' \in 0 .. JobStarts
    BY <1>1, <1>3, TimerTypes, JobsAreNumbers DEF J!Start, J!Starts
  <2>2. loop' = 1 /\ 1 \in 0 .. Jobs + 1 /\ 1 <= Len(once) + 1
    BY <1>1, <1>3, TimerTypes, JobsAreNumbers DEF J!Start
  <2>3. J!TypeOK'
    BY <1>1, <1>3, <2>1, <2>2 DEF J!Start, J!TypeOK
  <2>4. J!OnceForEachStart' /\ J!StoppedIsIdle'
    BY <1>1, <1>3 DEF J!Start, J!OnceForEachStart, J!StoppedIsIdle
  <2>5. starts' > starts /\ starts' > 0 /\ \A s \in J!Starts : s > starts' => s > starts
    BY <1>1, <2>1, TimerTypes, JobsAreNumbers
  <2>6. \A t \in timers : t.start <= starts' /\ t.start # starts'
    BY <1>1, <2>1, TimerTypes, JobsAreNumbers DEF J!LoopAhead
  <2>7. \A e \in J!Entry : [entry |-> e, start |-> starts'] \notin pending
    BY <1>1, <2>6, TimerTypes
  <2>8. J!LoopAhead'
    BY <1>1, <1>3, <2>1, <2>2, <2>5, <2>6, <2>7 DEF J!Start, J!LoopAhead, J!Room
  <2>9. QED
    BY <2>3, <2>4, <2>8 DEF SchedulerInv
<1>4. CASE J!ScheduleOnce \/ J!ScheduleEvery
  <2> DEFINE t == [entry |-> loop, start |-> starts]
  <2>1. J!AtEntry
    BY <1>4 DEF J!ScheduleOnce, J!ScheduleEvery
  <2>2. /\ loop \in J!Entry /\ starts \in J!Starts /\ loop > 0 /\ loop <= Len(once)
        /\ loop + 1 \in 0 .. Jobs + 1 /\ active[loop] + 1 \in 0 .. JobOverlap
        /\ ~dispatched[loop][starts]
    BY <2>1, AtAnEntry
  <2>3. t \in J!Timer /\ t.entry = loop /\ t.start = starts
    BY <2>2 DEF J!Timer
  <2> HIDE DEF t
  <2>4. PICK kept \in {pending, pending \ timers}, known \in {timers, {}} :
          /\ pending' = kept \cup {t} /\ timers' = known \cup {t}
          /\ kept \subseteq known /\ kept \subseteq pending
    <3>1. CASE J!ScheduleOnce
      BY <1>1, <3>1 DEF J!ScheduleOnce, J!MakeTimer, J!TypeOK, t
    <3>2. CASE J!ScheduleEvery
      <4>1. \/ pending' = pending \cup {t} /\ timers' = timers \cup {t}
            \/ pending' = (pending \ timers) \cup {t} /\ timers' = {} \cup {t}
        BY <3>2 DEF J!ScheduleEvery, J!ClearAll, J!ClearNone, t
      <4>2. pending \ timers \subseteq {} /\ pending \subseteq timers
        BY <1>1 DEF J!TypeOK
      <4>3. QED
        BY <4>1, <4>2
    <3>3. QED
      BY <1>4, <3>1, <3>2
  <2>5. /\ loop' = loop + 1 /\ UNCHANGED <<once, starts, stopped>>
        /\ \/ once[loop] /\ UNCHANGED <<active, dispatched>>
           \/ ~once[loop] /\ J!Dispatch(loop, starts)
    BY <1>4 DEF J!ScheduleOnce, J!ScheduleEvery, J!Advance
  <2>6. /\ active' \in [J!Entry -> 0 .. JobOverlap]
        /\ dispatched' \in [J!Entry -> [J!Starts -> BOOLEAN]]
        /\ \A e \in J!Entry \ {loop} : active'[e] = active[e] /\ dispatched'[e] = dispatched[e]
        /\ \A s \in J!Starts \ {starts} : dispatched'[loop][s] = dispatched[loop][s]
        /\ once[loop] => dispatched' = dispatched
    <3>1. /\ active \in [J!Entry -> 0 .. JobOverlap]
          /\ dispatched \in [J!Entry -> [J!Starts -> BOOLEAN]]
      BY <1>1 DEF J!TypeOK
    <3>2. CASE once[loop] /\ UNCHANGED <<active, dispatched>>
      BY <3>1, <3>2
    <3>3. CASE ~once[loop] /\ J!Dispatch(loop, starts)
      <4>1. active' = [active EXCEPT ![loop] = @ + 1]
            /\ dispatched' = [dispatched EXCEPT ![loop][starts] = TRUE]
        BY <3>3 DEF J!Dispatch
      <4>2. active' \in [J!Entry -> 0 .. JobOverlap]
            /\ \A e \in J!Entry \ {loop} : active'[e] = active[e]
        BY <2>2, <3>1, <4>1
      <4>3. /\ dispatched' \in [J!Entry -> [J!Starts -> BOOLEAN]]
            /\ \A e \in J!Entry \ {loop} : dispatched'[e] = dispatched[e]
            /\ \A s \in J!Starts \ {starts} : dispatched'[loop][s] = dispatched[loop][s]
        BY <2>2, <3>1, <4>1
      <4>4. once[loop] => dispatched' = dispatched
        BY <3>3
      <4>5. QED
        BY <4>2, <4>3, <4>4
    <3>4. QED
      BY <2>5, <3>2, <3>3
  <2>7. J!TypeOK'
    BY <1>1, <2>2, <2>3, <2>4, <2>5, <2>6 DEF J!TypeOK
  <2>8. \A u \in kept : once[u.entry] => ~dispatched'[u.entry][u.start]
    <3>1. \A u \in kept : u.entry \in J!Entry /\ u.start \in J!Starts
      BY <1>1, <2>4, TimerTypes
    <3>2. \A u \in kept : once[u.entry] => ~dispatched[u.entry][u.start]
      BY <1>1, <2>4 DEF J!OnceForEachStart
    <3>3. QED
      BY <2>6, <3>1, <3>2
  <2>9. J!OnceForEachStart'
    BY <2>2, <2>3, <2>4, <2>5, <2>6, <2>8 DEF J!OnceForEachStart
  <2>10. J!StoppedIsIdle'
    BY <1>1, <2>2, <2>5 DEF J!StoppedIsIdle
  <2>11. \A e \in J!Entry : e >= loop + 1 => e >= loop /\ e # loop
    BY <2>2, JobsAreNumbers
  <2>12. \A e \in J!Entry : e >= loop' =>
           /\ J!Room(e)' /\ ~dispatched'[e][starts']
           /\ [entry |-> e, start |-> starts'] \notin pending'
    BY <1>1, <2>2, <2>3, <2>4, <2>5, <2>6, <2>11 DEF J!LoopAhead, J!Room
  <2>13. \A e \in J!Entry, s \in J!Starts : s > starts' => ~dispatched'[e][s]
    <3>1. \A s \in J!Starts : s > starts => s # starts
      BY <2>2, JobsAreNumbers
    <3>2. QED
      BY <1>1, <2>5, <2>6, <3>1 DEF J!LoopAhead
  <2>14. \A u \in timers' : u.entry <= Len(once') /\ u.start <= starts'
    BY <1>1, <2>2, <2>3, <2>4, <2>5, TimerTypes, JobsAreNumbers DEF J!LoopAhead
  <2>15. loop' <= Len(once') + 1 /\ starts' > 0
    BY <1>1, <2>2, <2>5, TimerTypes, JobsAreNumbers DEF J!LoopAhead
  <2>16. QED
    BY <2>7, <2>9, <2>10, <2>12, <2>13, <2>14, <2>15 DEF SchedulerInv, J!LoopAhead
<1>5. CASE J!LoopEnds
  <2>1. J!TypeOK'
    BY <1>1, <1>5, JobsAreNumbers DEF J!LoopEnds, J!TypeOK
  <2>2. 0 <= Len(once) + 1 /\ ~(0 > 0)
    BY <1>1, TimerTypes
  <2>3. J!OnceForEachStart' /\ J!LoopAhead' /\ J!StoppedIsIdle'
    BY <1>1, <1>5, <2>2 DEF J!LoopEnds, J!OnceForEachStart, J!LoopAhead, J!StoppedIsIdle
  <2>4. QED
    BY <2>1, <2>3 DEF SchedulerInv
<1>6. CASE J!Stop
  <2>1. pending' = {} /\ timers' = {} /\ loop = 0
    BY <1>1, <1>6 DEF J!Stop, J!Cleared, J!TypeOK
  <2>2. J!TypeOK'
    BY <1>1, <1>6, <2>1 DEF J!Stop, J!TypeOK
  <2>3. ~(0 > 0)
    OBVIOUS
  <2>4. J!OnceForEachStart' /\ J!LoopAhead' /\ J!StoppedIsIdle'
    BY <1>1, <1>6, <2>1, <2>3 DEF J!Stop, J!OnceForEachStart, J!LoopAhead, J!StoppedIsIdle
  <2>5. QED
    BY <2>2, <2>4 DEF SchedulerInv
<1>7. ASSUME NEW t \in J!Timer, J!Fire(t) PROVE SchedulerInv'
  <2>1. /\ loop = 0 /\ t \in pending /\ active[t.entry] < JobOverlap
        /\ J!Dispatch(t.entry, t.start) /\ UNCHANGED <<once, loop, starts, stopped>>
        /\ pending' \subseteq pending /\ timers' \subseteq timers
        /\ pending' \subseteq timers' /\ (once[t.entry] => t \notin pending')
    BY <1>1, <1>7 DEF J!Fire, J!Room, J!TypeOK
  <2>2. /\ t.entry \in J!Entry /\ t.start \in J!Starts
        /\ t = [entry |-> t.entry, start |-> t.start]
    BY DEF J!Timer
  <2>3. active[t.entry] + 1 \in 0 .. JobOverlap
    BY <1>1, <2>1, <2>2, TimerTypes, JobsAreNumbers
  <2>4. /\ active' \in [J!Entry -> 0 .. JobOverlap]
        /\ dispatched' \in [J!Entry -> [J!Starts -> BOOLEAN]]
        /\ \A e \in J!Entry, s \in J!Starts :
             e # t.entry \/ s # t.start => dispatched'[e][s] = dispatched[e][s]
    BY <1>1, <2>1, <2>2, <2>3 DEF J!Dispatch, J!TypeOK
  <2>5. J!TypeOK'
    BY <1>1, <2>1, <2>4 DEF J!TypeOK
  <2>6. J!OnceForEachStart'
    <3>1. ASSUME NEW u \in pending', once'[u.entry] PROVE ~dispatched'[u.entry][u.start]
      <4>1. u \in pending /\ once[u.entry]
        BY <2>1, <3>1
      <4>2. u.entry \in J!Entry /\ u.start \in J!Starts
            /\ u = [entry |-> u.entry, start |-> u.start]
        BY <1>1, <4>1, TimerTypes
      <4>3. u.entry # t.entry \/ u.start # t.start
        BY <2>1, <2>2, <3>1, <4>1, <4>2
      <4>4. QED
        BY <1>1, <2>1, <2>4, <3>1, <4>1, <4>2, <4>3 DEF J!OnceForEachStart
    <3>2. QED
      BY <3>1 DEF J!OnceForEachStart
  <2>7. J!StoppedIsIdle'
    BY <1>1, <2>1 DEF J!StoppedIsIdle, J!TypeOK
  <2>8. ~(0 > 0) /\ t.start <= starts
    BY <1>1, <2>1, TimerTypes DEF J!LoopAhead
  <2>9. \A s \in J!Starts : s > starts => s # t.start
    BY <1>1, <2>2, <2>8, TimerTypes, JobsAreNumbers
  <2>10. J!LoopAhead'
    BY <1>1, <2>1, <2>4, <2>8, <2>9 DEF J!LoopAhead
  <2>11. QED
    BY <2>5, <2>6, <2>7, <2>10 DEF SchedulerInv
<1>8. ASSUME NEW e \in J!Entry, J!Settle(e) PROVE SchedulerInv'
  <2>1. active[e] - 1 \in 0 .. JobOverlap
    BY <1>1, <1>8, TimerTypes, JobsAreNumbers DEF J!Settle
  <2>2. J!TypeOK'
    BY <1>1, <1>8, <2>1 DEF J!Settle, J!TypeOK
  <2>3. ~(0 > 0)
    OBVIOUS
  <2>4. J!OnceForEachStart' /\ J!LoopAhead' /\ J!StoppedIsIdle'
    BY <1>1, <1>8, <2>3 DEF J!Settle, J!OnceForEachStart, J!LoopAhead, J!StoppedIsIdle
  <2>5. QED
    BY <2>2, <2>4 DEF SchedulerInv
<1>9. CASE UNCHANGED schedVars
  BY <1>1, <1>9 DEF schedVars, SchedulerInv, J!TypeOK, J!OnceForEachStart, J!LoopAhead,
    J!StoppedIsIdle, J!Room
<1>10. QED
  BY <1>2, <1>3, <1>4, <1>5, <1>6, <1>7, <1>8, <1>9 DEF J!Next

-----------------------------------------------------------------------------
(* Graceful.                                                               *)

GracefulInv == G!TypeOK /\ G!LoopTrue /\ G!ExitIsTold

States == {"none", "pending", "ok", "failed"}

LEMMA HooksAreNumbers == Hooks \in Nat /\ G!Hook \subseteq Nat /\ \A h \in G!Hook : h >= 1
  BY GracefulAssumption DEF G!HooksAssumption, G!Hook

LEMMA RunTypes ==
    ASSUME G!TypeOK, NEW r \in G!Run
    PROVE  /\ todo[r] \in Nat /\ todo[r] <= Hooks
           /\ hookSnapshot[r] \in Nat /\ hookSnapshot[r] <= Hooks
           /\ errors[r] \in Nat /\ errors[r] <= hookSnapshot[r]
           /\ hooks \in Nat /\ hooks <= Hooks
           /\ hook[r] \in [G!Hook -> States] /\ timedOut[r] \subseteq G!Hook
<1>1. /\ todo[r] \in 0 .. Hooks /\ hookSnapshot[r] \in 0 .. Hooks
      /\ errors[r] \in 0 .. Hooks /\ errors[r] <= hookSnapshot[r] /\ hooks \in 0 .. Hooks
      /\ hook[r] \in [G!Hook -> States] /\ timedOut[r] \subseteq G!Hook
  BY DEF G!TypeOK, States
<1>2. QED
  BY <1>1, HooksAreNumbers

(* When a shutdown() is over all its hooks are; one that is under way is   *)
(* at the hook that is pending; and one that resolved had no error.        *)
LEMMA GracefulSuffices == GracefulInv => G!LifoInEachRun /\ G!ExitCodeTrue
<1> SUFFICES ASSUME GracefulInv PROVE G!LifoInEachRun /\ G!ExitCodeTrue
  OBVIOUS
<1>1. G!TypeOK /\ G!LoopTrue /\ G!ExitIsTold
  BY DEF GracefulInv
<1>2. \A r \in G!Run : \A h \in 1 .. hookSnapshot[r] : h \in G!Hook /\ h <= hookSnapshot[r]
  BY <1>1, RunTypes, HooksAreNumbers DEF G!Hook
<1>3. ASSUME NEW r \in G!Run, NEW h \in 1 .. hookSnapshot[r], NEW k \in 1 .. hookSnapshot[r],
             hook[r][h] # "none", k > h
      PROVE  G!Over(r, k)
  <2>1. G!RunTrue(r) /\ h \in G!Hook /\ k \in G!Hook /\ k <= hookSnapshot[r]
    BY <1>1, <1>2, <1>3 DEF G!LoopTrue
  <2>2. ~(h <= todo[r])
    BY <1>3, <2>1 DEF G!RunTrue
  <2>3. G!Current(r) < k
    BY <1>1, <1>3, <2>2, RunTypes DEF G!Current
  <2>4. run[r] # "idle"
    BY <1>3, <2>1, RunTypes DEF G!RunTrue
  <2>5. run[r] \in {"running", "resolved", "rejected"}
    BY <1>1, <2>4 DEF G!TypeOK
  <2>6. QED
    BY <2>1, <2>3, <2>5 DEF G!RunTrue
<1>4. ASSUME NEW r \in G!Run, run[r] \in {"resolved", "rejected"},
             NEW h \in 1 .. hookSnapshot[r]
      PROVE  G!Over(r, h) /\ (run[r] = "resolved" => G!InTime(r, h))
  BY <1>1, <1>2, <1>4 DEF G!LoopTrue, G!RunTrue
<1>5. G!LifoInEachRun
  BY <1>3, <1>4 DEF G!LifoInEachRun
<1>6. G!ExitCodeTrue
  BY <1>1, <1>4 DEF G!ExitCodeTrue, G!ExitIsTold, G!InTime, G!Run
<1>7. QED
  BY <1>5, <1>6

LEMMA InitGraceful == G!Init => GracefulInv
<1> SUFFICES ASSUME G!Init PROVE GracefulInv
  OBVIOUS
<1>1. 0 \in 0 .. Hooks /\ 0 <= 0
  BY HooksAreNumbers
<1>2. G!TypeOK
  BY <1>1 DEF G!Init, G!TypeOK
<1>3. G!LoopTrue /\ G!ExitIsTold
  BY DEF G!Init, G!LoopTrue, G!RunTrue, G!ExitIsTold
<1>4. QED
  BY <1>2, <1>3 DEF GracefulInv

(* What is said of a run stands while nothing of it changes.               *)
LEMMA RunKept ==
    ASSUME NEW r \in G!Run, G!RunTrue(r),
           run'[r] = run[r], todo'[r] = todo[r], hookSnapshot'[r] = hookSnapshot[r],
           errors'[r] = errors[r], hook'[r] = hook[r], timedOut'[r] = timedOut[r]
    PROVE  G!RunTrue(r)'
  BY DEF G!RunTrue, G!Current, G!Over, G!InTime

(* The loop of shutdown() goes on from hook h in the right state: hooks    *)
(* below h not called, the others over, and n errors among them.           *)
LEMMA GoesOn ==
    ASSUME GracefulInv, process = "up", NEW r \in G!Run,
           NEW h \in Nat, NEW state \in [G!Hook -> States], NEW n \in Nat,
           G!Continue(r, h, state, n),
           UNCHANGED <<hooks, listening>>,
           hookSnapshot' \in [G!Run -> 0 .. Hooks], timedOut' \in [G!Run -> SUBSET G!Hook],
           \A q \in G!Run \ {r} :
               hookSnapshot'[q] = hookSnapshot[q] /\ timedOut'[q] = timedOut[q],
           h >= 1, n + h <= hookSnapshot'[r] + 1,
           \A k \in G!Hook : k < h \/ k > hookSnapshot'[r] =>
               state[k] = "none" /\ k \notin timedOut'[r],
           \A k \in G!Hook : h <= k /\ k <= hookSnapshot'[r] =>
               /\ state[k] \in {"ok", "failed"} \/ k \in timedOut'[r]
               /\ n = 0 => state[k] = "ok" /\ k \notin timedOut'[r]
    PROVE  GracefulInv'
<1>1. G!TypeOK /\ G!LoopTrue /\ G!ExitIsTold
  BY DEF GracefulInv
<1>2. /\ run \in [G!Run -> {"idle", "running", "resolved", "rejected"}]
      /\ todo \in [G!Run -> 0 .. Hooks] /\ hook \in [G!Run -> [G!Hook -> States]]
  BY <1>1 DEF G!TypeOK, States
<1>3. /\ hookSnapshot'[r] \in Nat /\ hookSnapshot'[r] <= Hooks
      /\ Hooks \in Nat /\ 0 \in 0 .. Hooks
  BY HooksAreNumbers
<1>4. n <= hookSnapshot'[r] /\ n \in 0 .. Hooks
  BY <1>3
<1>5. \A q \in G!Run \ {r} : /\ run'[q] = run[q] /\ todo'[q] = todo[q]
                             /\ errors'[q] = errors[q] /\ hook'[q] = hook[q]
  BY <1>1, <1>2 DEF G!Continue, G!CallsBelow, G!TypeOK
<1>6. errors' \in [G!Run -> 0 .. Hooks] /\ errors'[r] = n
  BY <1>1, <1>4 DEF G!Continue, G!TypeOK
<1>7. G!RunTrue(r)' => G!LoopTrue'
  <2>1. \A q \in G!Run \ {r} : G!RunTrue(q)'
    BY <1>1, <1>5, RunKept DEF G!LoopTrue
  <2>2. QED
    BY <2>1 DEF G!LoopTrue
<1>8. \A q \in G!Run : errors'[q] <= hookSnapshot'[q]
  BY <1>1, <1>4, <1>5, <1>6 DEF G!TypeOK
<1>9. hooks \in 0 .. Hooks /\ listening \in BOOLEAN
  BY <1>1 DEF G!TypeOK
<1>10. CASE h > 1
  <2>1. h - 1 \in G!Hook /\ h - 2 \in 0 .. Hooks /\ h - 2 \in Nat
    BY <1>3, <1>10 DEF G!Hook
  <2>2. /\ run' = [run EXCEPT ![r] = "running"] /\ todo' = [todo EXCEPT ![r] = h - 2]
        /\ hook' = [hook EXCEPT ![r] = [state EXCEPT ![h - 1] = "pending"]]
        /\ process' = process
    BY <1>10 DEF G!Continue, G!CallsBelow
  <2>3. /\ run'[r] = "running" /\ todo'[r] = h - 2
        /\ hook'[r] = [state EXCEPT ![h - 1] = "pending"]
    BY <1>2, <2>2
  <2>5. G!RunTrue(r)'
    <3>1. todo'[r] + 1 = h - 1
      BY <2>1, <2>3
    <3>2. hook'[r][h - 1] = "pending" /\ h - 1 \notin timedOut'[r]
          /\ \A k \in G!Hook : k # h - 1 => hook'[r][k] = state[k]
      BY <2>1, <2>3, HooksAreNumbers
    <3>3. h - 1 <= hookSnapshot'[r] /\ n + (h - 1) <= hookSnapshot'[r]
      BY <1>3, <2>1
    <3>4. \A k \in G!Hook : /\ k <= h - 2 => k < h /\ k # h - 1
                            /\ k > hookSnapshot'[r] => k # h - 1
                            /\ h - 1 < k => h <= k /\ k # h - 1
      BY <1>3, <3>3, HooksAreNumbers
    <3>5. \A k \in G!Hook : k <= todo'[r] \/ k > hookSnapshot'[r] =>
              hook'[r][k] = "none" /\ k \notin timedOut'[r]
      BY <2>3, <3>2, <3>4
    <3>6. \A k \in G!Hook : h - 1 < k /\ k <= hookSnapshot'[r] =>
              /\ hook'[r][k] \in {"ok", "failed"} \/ k \in timedOut'[r]
              /\ n = 0 => hook'[r][k] = "ok" /\ k \notin timedOut'[r]
      BY <3>2, <3>4
    <3>7. QED
      BY <1>6, <2>3, <3>1, <3>2, <3>3, <3>5, <3>6
      DEF G!RunTrue, G!Current, G!Over, G!InTime
  <2>6. hook' \in [G!Run -> [G!Hook -> States]] /\ run' \in [G!Run -> {"idle", "running",
          "resolved", "rejected"}] /\ todo' \in [G!Run -> 0 .. Hooks]
    BY <1>2, <2>1, <2>2 DEF States
  <2>7. G!TypeOK'
    BY <1>6, <1>8, <1>9, <2>2, <2>6 DEF G!TypeOK, States
  <2>8. G!ExitIsTold'
    BY <2>2 DEF G!ExitIsTold
  <2>9. QED
    BY <1>7, <2>5, <2>7, <2>8 DEF GracefulInv
<1>11. CASE h = 1
  <2>1. PICK verdict \in {"resolved", "rejected"} :
          /\ verdict = "resolved" => n = 0
          /\ run' = [run EXCEPT ![r] = verdict]
          /\ process' \in {"up", "exit 0", "exit 1"}
          /\ process' = "exit 0" => r \in Signals /\ verdict = "resolved"
    <3>1. run' = [run EXCEPT ![r] = G!ThrowIfErrors(n)]
          /\ process' = G!ExitOn(r, G!ThrowIfErrors(n))
      BY <1>11 DEF G!Continue
    <3>2. G!ThrowIfErrors(n) = "rejected" \/ (G!ThrowIfErrors(n) = "resolved" /\ n = 0)
      BY DEF G!ThrowIfErrors
    <3>3. QED
      BY <3>1, <3>2 DEF G!ExitOn
  <2>2. todo' = [todo EXCEPT ![r] = 0] /\ hook' = [hook EXCEPT ![r] = state]
    BY <1>11 DEF G!Continue, G!CallsBelow
  <2>3. run'[r] = verdict /\ todo'[r] = 0 /\ hook'[r] = state
    BY <1>2, <2>1, <2>2
  <2>4. \A k \in G!Hook : k >= 1 /\ ~(k <= 0)
    <3>1. \A k \in G!Hook : k \in Nat /\ k >= 1
      BY HooksAreNumbers
    <3>2. QED
      BY <3>1
  <2>5. G!RunTrue(r)'
    BY <1>11, <2>1, <2>3, <2>4 DEF G!RunTrue, G!Over, G!InTime
  <2>6. /\ hook' \in [G!Run -> [G!Hook -> States]] /\ todo' \in [G!Run -> 0 .. Hooks]
        /\ run' \in [G!Run -> {"idle", "running", "resolved", "rejected"}]
    BY <1>2, <1>3, <2>1, <2>2
  <2>7. G!TypeOK'
    BY <1>6, <1>8, <1>9, <2>1, <2>6 DEF G!TypeOK, States
  <2>8. G!ExitIsTold'
    BY <2>1, <2>3 DEF G!ExitIsTold
  <2>9. QED
    BY <1>7, <2>5, <2>7, <2>8 DEF GracefulInv
<1>12. QED
  BY <1>10, <1>11

LEMMA NextGraceful == GracefulInv /\ [G!Next]_gracefulVars => GracefulInv'
<1> SUFFICES ASSUME GracefulInv, [G!Next]_gracefulVars PROVE GracefulInv'
  OBVIOUS
<1> USE DEF G!setup, G!loop
<1>1. G!TypeOK /\ G!LoopTrue /\ G!ExitIsTold
  BY DEF GracefulInv
<1>2. ASSUME UNCHANGED <<run, todo, hookSnapshot, errors, hook, timedOut>>,
             hooks' \in 0 .. Hooks, listening' \in BOOLEAN,
             process' = process \/ process' = "killed"
      PROVE  GracefulInv'
  <2>1. G!TypeOK' /\ G!ExitIsTold'
    BY <1>1, <1>2 DEF G!TypeOK, G!ExitIsTold
  <2>2. G!LoopTrue'
    BY <1>1, <1>2, RunKept DEF G!LoopTrue
  <2>3. QED
    BY <2>1, <2>2 DEF GracefulInv
<1>3. CASE G!Register
  <2>1. hooks' \in 0 .. Hooks
    BY <1>1, <1>3, HooksAreNumbers DEF G!Register, G!TypeOK
  <2>2. QED
    BY <1>1, <1>2, <1>3, <2>1 DEF G!Register, G!TypeOK
<1>4. CASE G!Listen
  BY <1>1, <1>2, <1>4 DEF G!Listen, G!TypeOK
<1>5. ASSUME NEW r \in G!Run, G!CallShutdown(r) \/ G!Signal(r) PROVE GracefulInv'
  <2>1. process = "up" /\ G!Shutdown(r)
    BY <1>5 DEF G!CallShutdown, G!Signal
  <2>2. /\ run[r] = "idle" /\ hookSnapshot' = [hookSnapshot EXCEPT ![r] = hooks]
        /\ G!Continue(r, hooks + 1, hook[r], 0)
        /\ UNCHANGED <<hooks, listening, timedOut>>
    BY <2>1 DEF G!Shutdown
  <2>3. hooks \in 0 .. Hooks /\ hooks \in Nat /\ 0 \in Nat /\ hooks + 1 \in Nat
        /\ hooks + 1 >= 1 /\ 0 + (hooks + 1) <= hooks + 1
    <3>1. hooks \in 0 .. Hooks
      BY <1>1 DEF G!TypeOK
    <3>2. QED
      BY <3>1, HooksAreNumbers
  <2>4. /\ hookSnapshot' \in [G!Run -> 0 .. Hooks] /\ hookSnapshot'[r] = hooks
        /\ \A q \in G!Run \ {r} : hookSnapshot'[q] = hookSnapshot[q]
        /\ timedOut' \in [G!Run -> SUBSET G!Hook]
    BY <1>1, <2>2, <2>3 DEF G!TypeOK
  <2>5. \A k \in G!Hook : hook[r][k] = "none" /\ k \notin timedOut[r]
    <3>1. G!RunTrue(r) /\ hookSnapshot[r] = 0
      BY <1>1, <2>2 DEF G!LoopTrue, G!RunTrue
    <3>2. \A k \in G!Hook : k > 0
      BY HooksAreNumbers
    <3>3. QED
      BY <3>1, <3>2 DEF G!RunTrue
  <2>6. \A k \in G!Hook : ~(hooks + 1 <= k /\ k <= hooks)
    BY <2>3, HooksAreNumbers
  <2>7. hook[r] \in [G!Hook -> States]
    BY <1>1, RunTypes
  <2>8. QED
    BY <2>1, <2>2, <2>3, <2>4, <2>5, <2>6, <2>7, GoesOn
<1>6. ASSUME NEW r \in G!Run, G!SignalAgain(r) PROVE GracefulInv'
  BY <1>1, <1>2, <1>6 DEF G!SignalAgain, G!TypeOK
<1>7. ASSUME NEW r \in G!Run, NEW h \in G!Hook, process = "up", G!Waiting(r, h),
             hookSnapshot' = hookSnapshot, UNCHANGED <<hooks, listening>>,
             NEW late \in SUBSET {h}, timedOut' = [timedOut EXCEPT ![r] = @ \cup late],
             NEW state \in [G!Hook -> States],
             \A k \in G!Hook \ {h} : state[k] = hook[r][k],
             state[h] \in {"ok", "failed"} \/ h \in late,
             NEW n \in Nat, n \in {errors[r], errors[r] + 1},
             n = 0 => state[h] = "ok" /\ late = {},
             G!Continue(r, h, state, n)
      PROVE  GracefulInv'
  <2>1. /\ run[r] = "running" /\ h = todo[r] + 1 /\ G!RunTrue(r)
        /\ todo[r] \in Nat /\ hookSnapshot[r] \in Nat /\ errors[r] \in Nat /\ h \in Nat
    BY <1>1, <1>7, RunTypes, HooksAreNumbers DEF G!Waiting, G!Current, G!LoopTrue
  <2>2. /\ h <= hookSnapshot[r] /\ errors[r] + h <= hookSnapshot[r] /\ h \notin timedOut[r]
        /\ \A k \in G!Hook : k <= todo[r] \/ k > hookSnapshot[r] =>
             hook[r][k] = "none" /\ k \notin timedOut[r]
        /\ \A k \in G!Hook : h < k /\ k <= hookSnapshot[r] =>
             G!Over(r, k) /\ (errors[r] = 0 => G!InTime(r, k))
    BY <2>1 DEF G!RunTrue, G!Current
  <2>3. h >= 1 /\ n + h <= hookSnapshot[r] + 1
    BY <1>7, <2>1, <2>2
  <2>4. /\ timedOut'[r] = timedOut[r] \cup late
        /\ \A q \in G!Run \ {r} : timedOut'[q] = timedOut[q]
        /\ timedOut' \in [G!Run -> SUBSET G!Hook]
        /\ hookSnapshot' \in [G!Run -> 0 .. Hooks]
    BY <1>1, <1>7 DEF G!TypeOK
  <2>5. \A k \in G!Hook : /\ k < h => k <= todo[r] /\ k # h
                          /\ k > hookSnapshot[r] => k # h
                          /\ h <= k => k = h \/ h < k
    <3>1. \A k \in G!Hook : k \in Nat
      BY HooksAreNumbers
    <3>2. h = todo[r] + 1 /\ todo[r] \in Nat /\ h <= hookSnapshot[r] /\ hookSnapshot[r] \in Nat
      BY <2>1, <2>2
    <3>3. QED
      BY <3>1, <3>2
  <2>6. \A k \in G!Hook : k < h \/ k > hookSnapshot[r] =>
            state[k] = "none" /\ k \notin timedOut'[r]
    BY <1>7, <2>2, <2>4, <2>5
  <2>7. n = 0 => errors[r] = 0
    BY <1>7, <2>1
  <2>8. \A k \in G!Hook : h < k /\ k <= hookSnapshot[r] =>
            /\ state[k] \in {"ok", "failed"} \/ k \in timedOut'[r]
            /\ n = 0 => state[k] = "ok" /\ k \notin timedOut'[r]
    <3>1. \A k \in G!Hook : h < k => k # h
      BY <2>1, HooksAreNumbers
    <3>2. QED
      BY <1>7, <2>2, <2>4, <2>7, <3>1 DEF G!Over, G!InTime
  <2>9. /\ state[h] \in {"ok", "failed"} \/ h \in timedOut'[r]
        /\ n = 0 => state[h] = "ok" /\ h \notin timedOut'[r]
    BY <1>7, <2>2, <2>4
  <2>10. \A k \in G!Hook : h <= k /\ k <= hookSnapshot[r] =>
            /\ state[k] \in {"ok", "failed"} \/ k \in timedOut'[r]
            /\ n = 0 => state[k] = "ok" /\ k \notin timedOut'[r]
    BY <2>5, <2>8, <2>9
  <2>11. hookSnapshot'[r] = hookSnapshot[r]
         /\ \A q \in G!Run \ {r} : hookSnapshot'[q] = hookSnapshot[q]
    BY <1>7
  <2>12. QED
    BY <1>7, <2>1, <2>3, <2>4, <2>6, <2>10, <2>11, GoesOn
<1>8. ASSUME NEW r \in G!Run, NEW h \in G!Hook, G!HookSettles(r, h) PROVE GracefulInv'
  <2>1. PICK verdict \in {"ok", "failed"} :
          G!Continue(r, h, [hook[r] EXCEPT ![h] = verdict],
                     IF verdict = "ok" THEN errors[r] ELSE errors[r] + 1)
    BY <1>8 DEF G!HookSettles, G!AfterHook
  <2>2. PICK state : state = [hook[r] EXCEPT ![h] = verdict]
    OBVIOUS
  <2>3. PICK n : n = IF verdict = "ok" THEN errors[r] ELSE errors[r] + 1
    OBVIOUS
  <2>4. /\ process = "up" /\ G!Waiting(r, h)
        /\ UNCHANGED <<hooks, listening, hookSnapshot, timedOut>>
    BY <1>8 DEF G!HookSettles
  <2>5. hook[r] \in [G!Hook -> States] /\ errors[r] \in Nat
    BY <1>1, RunTypes
  <2>6. /\ state \in [G!Hook -> States] /\ state[h] = verdict
        /\ \A k \in G!Hook \ {h} : state[k] = hook[r][k]
    BY <2>2, <2>5 DEF States
  <2>7. n \in Nat /\ n \in {errors[r], errors[r] + 1} /\ (n = 0 => verdict = "ok")
    BY <2>3, <2>5
  <2>8. {} \in SUBSET {h} /\ timedOut' = [timedOut EXCEPT ![r] = @ \cup {}]
    BY <1>1, <2>4 DEF G!TypeOK
  <2>9. G!Continue(r, h, state, n)
    BY <2>1, <2>2, <2>3
  <2>10. QED
    BY <1>7, <2>4, <2>6, <2>7, <2>8, <2>9
<1>9. ASSUME NEW r \in G!Run, NEW h \in G!Hook, G!HookTimesOut(r, h) PROVE GracefulInv'
  <2>1. /\ process = "up" /\ G!Waiting(r, h)
        /\ timedOut' = [timedOut EXCEPT ![r] = @ \cup {h}]
        /\ G!Continue(r, h, hook[r], errors[r] + 1)
        /\ UNCHANGED <<hooks, listening, hookSnapshot>>
    BY <1>9 DEF G!HookTimesOut, G!MayTimeOut, G!TimeoutCounted
  <2>2. hook[r] \in [G!Hook -> States] /\ errors[r] \in Nat
    BY <1>1, RunTypes
  <2>3. errors[r] + 1 \in Nat /\ errors[r] + 1 # 0
    BY <2>2
  <2>4. QED
    BY <1>7, <2>1, <2>2, <2>3
<1>10. ASSUME NEW r \in G!Run, NEW h \in G!Hook, G!SettlesLate(r, h) PROVE GracefulInv'
  <2>1. PICK verdict \in {"ok", "failed"} : hook' = [hook EXCEPT ![r][h] = verdict]
    BY <1>10 DEF G!SettlesLate
  <2>2. /\ hook[r][h] = "pending" /\ h \in timedOut[r]
        /\ UNCHANGED <<hooks, listening, run, todo, hookSnapshot, errors, timedOut, process>>
    BY <1>10 DEF G!SettlesLate
  <2>3. /\ hook' \in [G!Run -> [G!Hook -> States]]
        /\ hook'[r][h] = verdict /\ \A k \in G!Hook \ {h} : hook'[r][k] = hook[r][k]
        /\ \A q \in G!Run \ {r} : hook'[q] = hook[q]
    BY <1>1, <2>1 DEF G!TypeOK, States
  <2>4. G!TypeOK' /\ G!ExitIsTold'
    BY <1>1, <2>2, <2>3 DEF G!TypeOK, G!ExitIsTold, States
  <2>5. G!RunTrue(r)'
    <3>1. G!RunTrue(r)
      BY <1>1 DEF G!LoopTrue
    <3>2. /\ run[r] = "running" => hook[r][todo[r] + 1] = "pending" /\ todo[r] + 1 # h
          /\ ~(h <= todo[r] \/ h > hookSnapshot[r])
      BY <2>2, <3>1 DEF G!RunTrue, G!Current
    <3>3. run[r] = "running" => todo[r] + 1 \in G!Hook
      <4>1. run[r] = "running" => todo[r] + 1 <= hookSnapshot[r]
        BY <3>1 DEF G!RunTrue, G!Current
      <4>2. /\ todo[r] \in Nat /\ hookSnapshot[r] \in Nat /\ hookSnapshot[r] <= Hooks
            /\ Hooks \in Nat
        BY <1>1, RunTypes, HooksAreNumbers
      <4>3. QED
        BY <4>1, <4>2 DEF G!Hook
    <3>4. run[r] = "running" => hook'[r][todo[r] + 1] = "pending"
      BY <2>3, <3>2, <3>3
    <3>5. \A k \in G!Hook : /\ G!Over(r, k) => G!Over(r, k)'
                            /\ G!InTime(r, k) => G!InTime(r, k)'
      BY <2>2, <2>3 DEF G!Over, G!InTime
    <3>6. \A k \in G!Hook : k <= todo[r] \/ k > hookSnapshot[r] =>
              hook'[r][k] = "none" /\ k \notin timedOut[r]
      BY <2>3, <3>1, <3>2 DEF G!RunTrue
    <3>7. QED
      BY <2>2, <3>1, <3>4, <3>5, <3>6 DEF G!RunTrue, G!Current
  <2>6. \A q \in G!Run \ {r} : G!RunTrue(q)'
    BY <1>1, <2>2, <2>3, RunKept DEF G!LoopTrue
  <2>7. G!LoopTrue'
    BY <2>5, <2>6 DEF G!LoopTrue
  <2>8. QED
    BY <2>4, <2>7 DEF GracefulInv
<1>11. CASE UNCHANGED gracefulVars
  BY <1>1, <1>2, <1>11 DEF gracefulVars, G!TypeOK
<1>12. QED
  BY <1>3, <1>4, <1>5, <1>6, <1>8, <1>9, <1>10, <1>11 DEF G!Next

-----------------------------------------------------------------------------
(* FeatureFlags: both questions are read off one flag, so that the types   *)
(* are invariant enough.                                                   *)
LEMMA FlagTypes ==
    /\ HashBucket \in [FlagKey -> [Entity -> 0 .. 99]]
    /\ Percentage \subseteq Int /\ Undefined \notin Int
    /\ F!Missing \in F!Flag /\ \A b \in BOOLEAN : F!Plain(b) \in F!Flag
<1>1. /\ HashBucket \in [FlagKey -> [Entity -> 0 .. 99]]
      /\ Percentage \subseteq Int /\ Undefined \notin Int
  BY SettingAssumption DEF F!BucketAssumption, F!FlagAssumption
<1>2. F!Missing \in F!Flag /\ \A b \in BOOLEAN : F!Plain(b) \in F!Flag
  BY DEF F!Missing, F!Flag, F!Plain
<1>3. QED
  BY <1>1, <1>2

LEMMA InitFlags == F!Init => F!TypeOK
  BY FlagTypes DEF F!Init, F!TypeOK

LEMMA NextFlags == F!TypeOK /\ [F!Next]_flags => F!TypeOK'
<1> SUFFICES ASSUME F!TypeOK, [F!Next]_flags PROVE F!TypeOK'
  OBVIOUS
<1>1. CASE F!FromEnv
  <2>1. PICK on \in SUBSET EnvFlags : flags' = [k \in FlagKey |-> F!Plain(k \in on)]
    BY <1>1 DEF F!FromEnv
  <2>2. \A k \in FlagKey : (k \in on) \in BOOLEAN
    OBVIOUS
  <2>3. \A k \in FlagKey : F!Plain(k \in on) \in F!Flag
    BY <2>2, FlagTypes, Zenon
  <2>4. QED
    BY <2>1, <2>3 DEF F!TypeOK
<1>2. ASSUME NEW k \in FlagKey, F!Delete(k) PROVE F!TypeOK'
  BY <1>2, FlagTypes DEF F!Delete, F!TypeOK
<1>3. ASSUME NEW k \in FlagKey, NEW f \in F!Flag, F!Set(k, f) PROVE F!TypeOK'
  BY <1>3 DEF F!Set, F!TypeOK
<1>4. CASE flags' = flags
  BY <1>4 DEF F!TypeOK
<1>5. QED
  BY <1>1, <1>2, <1>3, <1>4 DEF F!Next

(* A flag of 100 per cent has every bucket, one without a percentage and   *)
(* an allow-list asks for none.                                            *)
LEMMA FlagsAgree == F!TypeOK => F!AnswersAgree
<1> SUFFICES ASSUME F!TypeOK, NEW k \in FlagKey, NEW e \in Entity,
                    F!IsEnabled(k), flags[k].percentage # 0
             PROVE  F!IsEnabledFor(k, e)
  BY DEF F!AnswersAgree
<1> DEFINE p == flags[k].percentage
<1>1. flags[k] \in F!Flag /\ p \in Percentage \cup {Undefined}
  BY DEF F!TypeOK, F!Flag
<1>2. HashBucket[k][e] \in 0 .. 99
  BY FlagTypes
<1>3. CASE p = Undefined
  BY <1>1, <1>3, FlagTypes DEF F!IsEnabled, F!IsEnabledFor, F!Rollout
<1>4. CASE p # Undefined
  <2>1. p \in Int /\ p >= 100
    BY <1>1, <1>4, FlagTypes DEF F!IsEnabled, F!Falsy
  <2>2. p > 0 /\ HashBucket[k][e] < p
    BY <1>2, <2>1
  <2>3. QED
    BY <1>4, <2>2 DEF F!IsEnabled, F!IsEnabledFor, F!Rollout
<1>5. QED
  BY <1>3, <1>4

(* A raised percentage has the buckets it had before.                      *)
LEMMA RaisedKeeps ==
    ASSUME F!TypeOK, F!TypeOK', NEW k \in FlagKey, NEW e \in Entity,
           F!Wider(flags[k], flags'[k]), F!IsEnabledFor(k, e)
    PROVE  F!IsEnabledFor(k, e)'
<1> DEFINE p == flags[k].percentage  q == flags'[k].percentage
<1>1. p \in Int /\ q \in Int /\ p <= q /\ p # Undefined /\ q # Undefined
  <2>1. flags[k] \in F!Flag /\ flags'[k] \in F!Flag
    BY DEF F!TypeOK
  <2>2. p \in Percentage \cup {Undefined} /\ q \in Percentage \cup {Undefined}
    BY <2>1 DEF F!Flag
  <2>3. QED
    BY <2>2, FlagTypes DEF F!Wider
<1>2. flags'[k].enabled /\ flags[k].allowList \subseteq flags'[k].allowList
  BY DEF F!Wider, F!IsEnabledFor
<1>3. CASE e \in flags[k].allowList
  BY <1>2, <1>3 DEF F!IsEnabledFor
<1>4. CASE F!Rollout(k, e)
  <2>1. p > 0 /\ HashBucket[k][e] < p /\ HashBucket[k][e] \in 0 .. 99
    BY <1>1, <1>4, FlagTypes DEF F!Rollout
  <2>2. q > 0 /\ HashBucket[k][e] < q
    BY <1>1, <2>1
  <2>3. QED
    BY <1>1, <1>2, <2>2 DEF F!IsEnabledFor, F!Rollout
<1>5. QED
  BY <1>3, <1>4 DEF F!IsEnabledFor

(* Only a set() of the flag itself makes it wider: the flags of fromEnv()  *)
(* have no percentage.                                                     *)
LEMMA OthersKept ==
    ASSUME F!TypeOK, [F!Next]_flags, NEW k \in FlagKey,
           flags'[k] # flags[k], F!Wider(flags[k], flags'[k])
    PROVE  \A i \in FlagKey \ {k} : flags'[i] = flags[i]
<1>1. CASE F!FromEnv
  <2>1. flags'[k].percentage = Undefined
    BY <1>1 DEF F!FromEnv, F!Plain, F!Missing
  <2>2. QED
    BY <2>1 DEF F!Wider
<1>2. ASSUME NEW i \in FlagKey, F!Delete(i) \/ \E f \in F!Flag : F!Set(i, f)
      PROVE  \A j \in FlagKey \ {k} : flags'[j] = flags[j]
  <2>1. \A j \in FlagKey \ {i} : flags'[j] = flags[j]
    BY <1>2 DEF F!Delete, F!Set, F!TypeOK
  <2>2. QED
    BY <2>1
<1>3. QED
  BY <1>1, <1>2 DEF F!Next

-----------------------------------------------------------------------------
(* Validator: without g and y the expression looks from 0 on, where it     *)
(* sees what a rule without memory sees; with one, it may see less, so that *)
(* a rule that is broken is found to be broken.                            *)
ValidatorInv == V!TypeOK /\ V!Memoryless /\ V!VerdictTrue

LEMMA Lengths == MaxLen \in Nat /\ MinLength \in Nat
  BY SettingAssumption DEF V!LimitAssumption

LEMMA CleanIsTrue ==
    /\ V!Clean \in [Name -> SUBSET V!Rule]
    /\ \A f \in Name : V!Clean[f] = {}
  BY DEF V!Clean

LEMMA InitValidator == V!Init => ValidatorInv
<1> SUFFICES ASSUME V!Init PROVE ValidatorInv
  OBVIOUS
<1>1. flag = "none" /\ lastIndex = 0 /\ fieldErrors = V!Clean /\ invalid = V!Clean
  BY DEF V!Init
<1>2. lastIndex \in 0 .. MaxLen
  BY <1>1, Lengths
<1>3. V!TypeOK
  BY <1>1, <1>2, CleanIsTrue, Zenon DEF V!TypeOK, V!Flag
<1>4. V!Memoryless /\ V!VerdictTrue
  BY <1>1, CleanIsTrue DEF V!Memoryless, V!VerdictTrue
<1>5. QED
  BY <1>3, <1>4 DEF ValidatorInv

LEMMA FieldCalled ==
    ASSUME ValidatorInv, NEW f \in Name, NEW v \in V!Value, NEW rules \in SUBSET V!Rule,
           V!FieldCall(f, v, rules)
    PROVE  ValidatorInv'
<1> DEFINE found == V!FieldErrors(v, rules)  broken == V!Broken(v, rules)
<1>1. V!TypeOK /\ V!Memoryless /\ V!VerdictTrue
  BY DEF ValidatorInv
<1>2. v.length \in 0 .. MaxLen /\ v.at \in {-1} \cup 0 .. MaxLen - 1
  BY DEF V!Value, V!NoMatch
<1>3. flag' = flag /\ lastIndex \in 0 .. MaxLen
  BY <1>1 DEF V!FieldCall, V!TypeOK
<1>4. found \in SUBSET V!Rule /\ broken \in SUBSET V!Rule
  BY DEF V!FieldErrors, V!Broken
<1>5. broken \subseteq found
  BY DEF V!FieldErrors, V!Broken, V!Breaks, V!Matches
<1>6. flag = "none" => found = broken
  <2>1. flag = "none" => (V!Matches(v) <=> v.at # -1)
    BY <1>1, <1>2, Lengths DEF V!Matches, V!Memoryless, V!NoMatch
  <2>2. QED
    BY <2>1 DEF V!FieldErrors, V!Broken, V!Breaks, V!Rule, V!NoMatch
<1>7. lastIndex' \in 0 .. MaxLen /\ (flag = "none" => lastIndex' = 0)
  BY <1>1, <1>2, <1>3, Lengths DEF V!FieldCall, V!LastIndexAfter, V!Memoryless
<1>8. /\ fieldErrors' = V!With(fieldErrors, f, found)
      /\ invalid' = V!With(invalid, f, broken)
  BY DEF V!FieldCall
<1>9. V!TypeOK'
  BY <1>1, <1>3, <1>4, <1>7, <1>8 DEF V!TypeOK, V!With
<1>10. V!VerdictTrue'
  <2>1. ASSUME NEW g \in Name, invalid'[g] # {} PROVE fieldErrors'[g] # {}
    BY <1>1, <1>5, <1>8, <2>1 DEF V!TypeOK, V!VerdictTrue, V!With
  <2>2. flag' = "none" => fieldErrors' = invalid'
    BY <1>1, <1>3, <1>6, <1>8 DEF V!VerdictTrue, V!With
  <2>3. QED
    BY <2>1, <2>2 DEF V!VerdictTrue
<1>11. QED
  BY <1>3, <1>7, <1>9, <1>10 DEF ValidatorInv, V!Memoryless

LEMMA NextValidator == ValidatorInv /\ [V!Next]_validatorVars => ValidatorInv'
<1> SUFFICES ASSUME ValidatorInv, [V!Next]_validatorVars PROVE ValidatorInv'
  OBVIOUS
<1>1. CASE V!NewRules \/ V!NewValidator
  BY <1>1, Lengths, CleanIsTrue DEF V!NewRules, V!NewValidator, ValidatorInv, V!TypeOK,
    V!Memoryless, V!VerdictTrue
<1>2. CASE UNCHANGED validatorVars
  BY <1>2 DEF validatorVars, ValidatorInv, V!TypeOK, V!Memoryless, V!VerdictTrue
<1>3. QED
  BY <1>1, <1>2, FieldCalled DEF V!Next

-----------------------------------------------------------------------------
(* Config: the loop is right about the fields behind it.  Each round looks *)
(* at one field and does to it what the field deserves.                    *)
ConfigInv == C!TypeOK /\ C!LoopTrue /\ C!AllOrNothing

LEMMA FieldTypes ==
    ASSUME C!TypeOK, NEW f \in C!Field
    PROVE  /\ NFields \in Nat /\ f \in Nat /\ f >= 1 /\ f <= NFields
           /\ meta[f].default \in {"none", "good", "bad"}
           /\ meta[f].required \in BOOLEAN /\ meta[f].inherited \in BOOLEAN
           /\ env[f] \in {"unset", "empty", "good", "bad"}
<1>1. NFields \in Nat
  BY SettingAssumption DEF C!FieldsAssumption
<1>2. meta[f] \in C!Meta /\ env[f] \in C!Raw
  BY DEF C!TypeOK
<1>3. QED
  BY <1>1, <1>2 DEF C!Field, C!Meta, C!Raw

LEMMA InitConfig == C!Init => ConfigInv
<1> SUFFICES ASSUME C!Init PROVE ConfigInv
  OBVIOUS
<1>1. NFields \in Nat
  BY SettingAssumption DEF C!FieldsAssumption
<1>2. C!TypeOK
  BY <1>1 DEF C!Init, C!TypeOK, C!Meta, C!Raw
<1>3. C!LoopTrue
  <2>1. next = 1 /\ configErrors = <<>> /\ outcome = "none"
    BY DEF C!Init
  <2>2. C!ToSet(configErrors) = {f \in C!Field : f < next /\ C!Wrong(f)}
    <3>1. C!ToSet(configErrors) = {}
      BY <2>1 DEF C!ToSet
    <3>2. \A f \in C!Field : ~(f < next)
      BY <1>1, <2>1 DEF C!Field
    <3>3. QED
      BY <3>1, <3>2
  <2>3. C!Ascending
    BY <2>1 DEF C!Ascending
  <2>4. \A f \in C!Field : value[f] = "initial" /\ f >= next
    BY <1>1, <2>1 DEF C!Init, C!Field
  <2>5. QED
    BY <2>1, <2>2, <2>3, <2>4 DEF C!LoopTrue
<1>4. C!AllOrNothing
  BY DEF C!Init, C!AllOrNothing
<1>5. QED
  BY <1>2, <1>3, <1>4 DEF ConfigInv

(* The three cases of a round are all there are, and the second is that of *)
(* the fields that are wrong.                                              *)
LEMMA RoundCases ==
    ASSUME C!TypeOK, NEW f \in C!Field, C!Look(f)
    PROVE  /\ next' = f + 1
           /\ IF C!Wrong(f) THEN configErrors' = Append(configErrors, f)
                                /\ UNCHANGED value
              ELSE /\ UNCHANGED configErrors
                   /\ IF C!KeepsInitial(f) THEN UNCHANGED value
                      ELSE \E from \in {"default", "env"} :
                             value' = [value EXCEPT ![f] = from]
<1> USE DEF C!Own, C!RawOf, C!Unset
<1>1. /\ meta[f].default \in {"none", "good", "bad"} /\ meta[f].required \in BOOLEAN
      /\ meta[f].inherited \in BOOLEAN /\ env[f] \in {"unset", "empty", "good", "bad"}
  BY FieldTypes
<1>2. CASE C!Wrong(f)
  BY <1>1, <1>2 DEF C!Look, C!Wrong, C!Error, C!AfterError
<1>3. CASE ~C!Wrong(f) /\ C!KeepsInitial(f)
  BY <1>1, <1>3 DEF C!Look, C!Wrong, C!KeepsInitial
<1>4. CASE ~C!Wrong(f) /\ ~C!KeepsInitial(f)
  BY <1>1, <1>4 DEF C!Look, C!Wrong, C!KeepsInitial
<1>5. QED
  BY <1>2, <1>3, <1>4

LEMMA RoundTrue ==
    ASSUME ConfigInv, NEW f \in C!Field, C!Look(f) PROVE ConfigInv'
<1>1. C!TypeOK /\ C!LoopTrue /\ NFields \in Nat /\ f \in 1 .. NFields
  BY FieldTypes DEF ConfigInv
<1>2. /\ outcome = "loading" /\ next = f /\ next' = f + 1
      /\ UNCHANGED <<meta, env, outcome>>
  BY <1>1, RoundCases DEF C!Look
<1>3. \A g \in C!Field :
        /\ C!Wrong(g)' = C!Wrong(g) /\ C!KeepsInitial(g)' = C!KeepsInitial(g)
        /\ g < next' <=> g < next \/ g = f
        /\ g >= next' <=> g >= next /\ g # f
  BY <1>1, <1>2 DEF C!Wrong, C!KeepsInitial, C!Field
<1>4. /\ configErrors \in Seq(C!Field)
      /\ value \in [C!Field -> {"initial", "default", "env"}]
  BY <1>1 DEF C!TypeOK
<1>5. /\ configErrors' \in Seq(C!Field) /\ C!Ascending'
      /\ C!ToSet(configErrors') = {g \in C!Field : g < next' /\ C!Wrong(g)'}
  <2>1. CASE ~C!Wrong(f)
    <3>1. configErrors' = configErrors
      BY <1>1, <2>1, RoundCases
    <3>2. QED
      BY <1>1, <1>3, <1>4, <2>1, <3>1 DEF C!LoopTrue, C!Ascending
  <2>2. CASE C!Wrong(f)
    <3>1. configErrors' = Append(configErrors, f)
      BY <1>1, <2>2, RoundCases
    <3>2. configErrors' \in Seq(C!Field) /\ Len(configErrors') = Len(configErrors) + 1
          /\ configErrors'[Len(configErrors) + 1] = f
          /\ \A i \in 1 .. Len(configErrors) : configErrors'[i] = configErrors[i]
      BY <1>4, <3>1
    <3>3. C!ToSet(configErrors') = C!ToSet(configErrors) \cup {f}
      BY <1>4, <3>2 DEF C!ToSet
    <3>4. C!ToSet(configErrors') = {g \in C!Field : g < next' /\ C!Wrong(g)'}
      BY <1>1, <1>3, <2>2, <3>3 DEF C!LoopTrue
    <3>5. \A i \in 1 .. Len(configErrors) : configErrors[i] < f
      <4> SUFFICES ASSUME NEW i \in 1 .. Len(configErrors) PROVE configErrors[i] < f
        OBVIOUS
      <4>1. configErrors[i] \in C!ToSet(configErrors)
        BY <1>4 DEF C!ToSet
      <4>2. QED
        BY <1>1, <1>2, <4>1 DEF C!LoopTrue
    <3>6. C!Ascending'
      <4> SUFFICES ASSUME NEW i \in 1 .. Len(configErrors') - 1
                   PROVE  configErrors'[i] < configErrors'[i + 1]
        BY DEF C!Ascending
      <4>1. Len(configErrors) \in Nat /\ i \in 1 .. Len(configErrors)
        BY <1>4, <3>2
      <4>2. CASE i = Len(configErrors)
        BY <3>2, <3>5, <4>1, <4>2
      <4>3. CASE i < Len(configErrors)
        BY <1>1, <3>2, <4>1, <4>3 DEF C!LoopTrue, C!Ascending
      <4>4. QED
        BY <4>1, <4>2, <4>3
    <3>7. QED
      BY <3>2, <3>4, <3>6
  <2>3. QED
    BY <2>1, <2>2
<1>6. /\ value' \in [C!Field -> {"initial", "default", "env"}]
      /\ \A g \in C!Field :
           value'[g] = "initial" <=> g >= next' \/ C!Wrong(g)' \/ C!KeepsInitial(g)'
  <2>1. \A g \in C!Field :
           value[g] = "initial" <=> g >= next \/ C!Wrong(g) \/ C!KeepsInitial(g)
    BY <1>1 DEF C!LoopTrue
  <2>2. f >= next
    BY <1>1, <1>2
  <2>3. CASE UNCHANGED value /\ (C!Wrong(f) \/ C!KeepsInitial(f))
    BY <1>3, <1>4, <2>1, <2>3
  <2>4. CASE /\ ~C!Wrong(f) /\ ~C!KeepsInitial(f)
             /\ \E from \in {"default", "env"} : value' = [value EXCEPT ![f] = from]
    BY <1>3, <1>4, <2>1, <2>4
  <2>5. QED
    BY <1>1, <2>3, <2>4, RoundCases
<1>7. C!TypeOK'
  BY <1>1, <1>2, <1>5, <1>6 DEF C!TypeOK, C!Field
<1>8. C!LoopTrue'
  BY <1>1, <1>2, <1>5, <1>6 DEF C!LoopTrue
<1>9. C!AllOrNothing'
  BY <1>2 DEF C!AllOrNothing
<1>10. QED
  BY <1>7, <1>8, <1>9 DEF ConfigInv

LEMMA LoopEnded == ASSUME ConfigInv, C!End PROVE ConfigInv'
<1>1. C!TypeOK /\ C!LoopTrue /\ NFields \in Nat
  BY SettingAssumption DEF ConfigInv, C!FieldsAssumption
<1>2. /\ next = NFields + 1 /\ outcome' \in {"returned", "thrown"}
      /\ outcome' = "returned" => configErrors = <<>>
      /\ UNCHANGED <<meta, env, next, value, configErrors>>
  BY <1>1 DEF C!End, C!TypeOK
<1>3. C!TypeOK'
  BY <1>1, <1>2 DEF C!TypeOK
<1>4. \A f \in C!Field :
        C!Wrong(f)' = C!Wrong(f) /\ C!KeepsInitial(f)' = C!KeepsInitial(f)
  BY <1>2 DEF C!Wrong, C!KeepsInitial
<1>5. C!LoopTrue'
  <2>1. /\ C!ToSet(configErrors') = {f \in C!Field : f < next' /\ C!Wrong(f)'}
        /\ \A f \in C!Field :
             value'[f] = "initial" <=> f >= next' \/ C!Wrong(f)' \/ C!KeepsInitial(f)'
    BY <1>1, <1>2, <1>4 DEF C!LoopTrue
  <2>2. C!Ascending'
    BY <1>1, <1>2 DEF C!LoopTrue, C!Ascending
  <2>3. QED
    BY <1>2, <2>1, <2>2 DEF C!LoopTrue
<1>6. \A f \in C!Field : f < next' /\ ~(f >= next')
  BY <1>1, <1>2 DEF C!Field
<1>7. outcome' = "returned" => \A f \in C!Field : ~C!Wrong(f)'
  <2>1. outcome' = "returned" => C!ToSet(configErrors') = {}
    BY <1>2 DEF C!ToSet
  <2>2. QED
    BY <1>5, <1>6, <2>1 DEF C!LoopTrue
<1>8. C!AllOrNothing'
  BY <1>5, <1>6, <1>7 DEF C!LoopTrue, C!AllOrNothing
<1>9. QED
  BY <1>3, <1>5, <1>8 DEF ConfigInv

LEMMA NextConfig == ConfigInv /\ [C!Next]_configVars => ConfigInv'
<1> SUFFICES ASSUME ConfigInv, [C!Next]_configVars PROVE ConfigInv'
  OBVIOUS
<1>1. C!TypeOK /\ C!LoopTrue /\ NFields \in Nat
  BY SettingAssumption DEF ConfigInv, C!FieldsAssumption
<1>2. CASE C!Call
  <2>1. /\ next = 1 /\ configErrors = <<>> /\ outcome' = "loading"
        /\ meta' \in [C!Field -> C!Meta] /\ env' \in [C!Field -> C!Raw]
        /\ UNCHANGED <<next, value, configErrors>>
    BY <1>1, <1>2 DEF C!Call, C!LoopTrue
  <2>2. C!TypeOK'
    BY <1>1, <2>1 DEF C!TypeOK
  <2>3. \A f \in C!Field : ~(f < next) /\ f >= next
    BY <1>1, <2>1 DEF C!Field
  <2>4. C!ToSet(configErrors') = {} /\ C!Ascending'
    BY <2>1 DEF C!ToSet, C!Ascending
  <2>5. C!LoopTrue'
    BY <1>1, <2>1, <2>3, <2>4 DEF C!LoopTrue
  <2>6. QED
    BY <2>1, <2>2, <2>5 DEF ConfigInv, C!AllOrNothing
<1>3. CASE UNCHANGED configVars
  BY <1>3 DEF configVars, ConfigInv, C!TypeOK, C!LoopTrue, C!AllOrNothing, C!Ascending,
    C!Wrong, C!KeepsInitial
<1>4. QED
  BY <1>2, <1>3, RoundTrue, LoopEnded DEF C!Next

-----------------------------------------------------------------------------
(* Http: what was sent and what the guards let pass follow from how far    *)
(* the request is.                                                         *)
HttpInv == W!TypeOK /\ W!StageTrue /\ W!OneAnswer /\ W!GuardsHold

LEMMA RequestTypes ==
    /\ TtlSeconds \subseteq Int /\ TimeoutMs \in Nat /\ HttpTime \in Nat
    /\ W!None \in W!Tokens /\ W!None.kind = "none"
    /\ \A t \in W!Tokens : t.exp \in Int
<1>1. TtlSeconds \subseteq Int /\ TimeoutMs \in Nat /\ HttpTime \in Nat
  BY CallAssumption DEF W!RequestAssumption
<1>2. W!None \in W!Tokens /\ W!None.kind = "none" /\ W!None.exp = 0
  BY DEF W!Tokens, W!None
<1>3. ASSUME NEW t \in W!Tokens PROVE t.exp \in Int
  BY <1>1, <1>3 DEF W!Tokens, W!None
<1>4. QED
  BY <1>1, <1>2, <1>3

LEMMA InitHttp == W!Init => HttpInv
<1> SUFFICES ASSUME W!Init PROVE HttpInv
  OBVIOUS
<1>1. W!TypeOK
  <2>1. now \in 0 .. HttpTime /\ admitted \in 0 .. HttpTime /\ due \in 0 .. HttpTime
    BY RequestTypes DEF W!Init
  <2>2. ended \in BOOLEAN /\ uncaught \in BOOLEAN
    BY Zenon DEF W!Init
  <2>3. QED
    BY <2>1, <2>2, RequestTypes DEF W!Init, W!TypeOK
<1>2. W!StageTrue /\ W!OneAnswer /\ W!GuardsHold
  BY DEF W!Init, W!StageTrue, W!OneAnswer, W!GuardsHold
<1>3. QED
  BY <1>1, <1>2 DEF HttpInv

(* The statuses and the time as numbers, and what a request has that has   *)
(* not been answered.                                                      *)
LEMMA Stage ==
    ASSUME HttpInv
    PROVE  /\ now \in Nat /\ now <= HttpTime /\ due \in Nat /\ admitted \in Nat
           /\ token \in W!Tokens /\ token.exp \in Int
           /\ wire \in {0, 200, 401, 403, 500, 503} /\ status \in {200, 401, 403, 500, 503}
           /\ W!headersSent <=> wire # 0
           /\ logged # 0 => wire # 0
  BY RequestTypes DEF HttpInv, W!TypeOK, W!StageTrue, W!headersSent

LEMMA Arrived ==
    ASSUME HttpInv, W!Enter \/ W!Recover PROVE HttpInv'
<1>1. /\ W!TypeOK /\ W!StageTrue /\ W!OneAnswer
      /\ pc = "new" /\ claims = W!None /\ wire = 0 /\ status = 200 /\ ~ended
      /\ now + TimeoutMs <= HttpTime /\ now \in Nat /\ due' = now + TimeoutMs
      /\ token' \in W!Tokens /\ timer' = "armed" /\ logged = 0 /\ finish # "emitted"
      /\ UNCHANGED <<now, claims, admitted, finish, logged, uncaught>>
      /\ ~uncaught
  BY Stage DEF HttpInv, W!Enter, W!Recover, W!Arrive, W!StageTrue, W!OneAnswer
<1>2. due' \in 0 .. HttpTime
  BY <1>1, RequestTypes
<1>3. CASE W!Enter
  <2>1. pc' \in {"jwt", "roles"} /\ UNCHANGED <<status, wire, ended>>
    BY <1>3 DEF W!Enter, W!response
  <2>2. W!TypeOK'
    BY <1>1, <1>2, <2>1 DEF W!TypeOK
  <2>3. W!StageTrue' /\ W!OneAnswer' /\ W!GuardsHold'
    BY <1>1, <2>1 DEF W!StageTrue, W!OneAnswer, W!GuardsHold
  <2>4. QED
    BY <2>2, <2>3 DEF HttpInv
<1>4. CASE W!Recover
  <2>1. /\ pc' = "over"
        /\ \/ status' = 500 /\ wire' = 500 /\ ended' = TRUE
           \/ status' = 200 /\ wire' = 200 /\ ended' = ended
    BY <1>1, <1>4 DEF W!Recover, W!Respond, W!headersSent
  <2>2. W!TypeOK'
    <3>1. ended' \in BOOLEAN
      BY <1>1, <2>1, Zenon DEF W!TypeOK
    <3>2. QED
      BY <1>1, <1>2, <2>1, <3>1 DEF W!TypeOK
  <2>3. W!StageTrue' /\ W!OneAnswer' /\ W!GuardsHold'
    BY <1>1, <2>1 DEF W!StageTrue, W!OneAnswer, W!GuardsHold
  <2>4. QED
    BY <2>2, <2>3 DEF HttpInv
<1>5. QED
  BY <1>3, <1>4

(* A refusal with s, for which there is a reason, ends an answer that has  *)
(* begun, or is the answer.                                                *)
LEMMA Refused ==
    ASSUME HttpInv, NEW s \in {401, 403, 500}, W!Refuse(s),
           pc \in {"jwt", "roles", "running", "streaming"},
           s = 401 => token.kind # "jwt",
           s = 403 => claims = W!None \/ token.exp <= now
                        \/ Required \cap token.roles = {}
    PROVE  HttpInv'
<1>1. /\ W!TypeOK /\ W!StageTrue /\ W!OneAnswer /\ W!GuardsHold
      /\ timer # "none"
  BY DEF HttpInv, W!StageTrue
<1>2. /\ pc' = "over" /\ ended' = TRUE
      /\ UNCHANGED <<token, claims, admitted, now, timer, due, finish, logged, uncaught>>
      /\ IF wire = 0 THEN status' = s /\ wire' = s ELSE UNCHANGED <<status, wire>>
  BY DEF W!Refuse, W!Exception, W!Respond, W!headersSent, W!rest
<1>3. W!TypeOK'
  BY <1>1, <1>2 DEF W!TypeOK
<1>4. W!StageTrue'
  BY <1>1, <1>2 DEF W!StageTrue
<1>5. W!OneAnswer'
  BY <1>1, <1>2, Stage DEF W!OneAnswer
<1>6. W!GuardsHold'
  BY <1>1, <1>2 DEF W!GuardsHold
<1>7. QED
  BY <1>3, <1>4, <1>5, <1>6 DEF HttpInv

LEMMA GuardStep ==
    ASSUME HttpInv, W!JwtRefuses \/ W!JwtAdmits \/ W!RolesRefuse \/ W!RolesAdmit
    PROVE  HttpInv'
<1>1. W!TypeOK /\ W!StageTrue /\ W!OneAnswer /\ W!GuardsHold
  BY DEF HttpInv
<1>2. CASE W!JwtRefuses
  <2>1. pc = "jwt"
    BY <1>2 DEF W!JwtRefuses
  <2>2. CASE token.kind # "jwt" /\ W!Refuse(401)
    BY <2>1, <2>2, Refused
  <2>3. CASE W!Expired /\ W!Refuse(403)
    <3>1. token.exp <= now
      BY <2>3, Stage DEF W!Expired
    <3>2. QED
      BY <2>1, <2>3, <3>1, Refused
  <2>4. QED
    BY <1>2, <2>2, <2>3 DEF W!JwtRefuses
<1>3. CASE W!JwtAdmits
  <2>1. /\ pc = "jwt" /\ pc' = "roles" /\ token.kind = "jwt" /\ now < token.exp
        /\ claims' = token /\ admitted' = now
        /\ UNCHANGED <<token, status, wire, ended, now, timer, due, finish, logged, uncaught>>
    BY <1>3, Stage DEF W!JwtAdmits, W!Expired, W!response, W!rest
  <2>2. wire \in {0, 503}
    BY <1>1, <2>1 DEF W!StageTrue
  <2>3. W!TypeOK'
    BY <1>1, <2>1 DEF W!TypeOK
  <2>4. W!StageTrue'
    BY <1>1, <2>1, RequestTypes DEF W!StageTrue
  <2>5. W!OneAnswer' /\ W!GuardsHold'
    BY <1>1, <2>1, <2>2 DEF W!OneAnswer, W!GuardsHold
  <2>6. QED
    BY <2>3, <2>4, <2>5 DEF HttpInv
<1>4. CASE W!RolesRefuse
  <2>1. pc = "roles" /\ W!Refuse(403) /\ ~W!HasRole
    BY <1>4 DEF W!RolesRefuse
  <2>2. claims = W!None \/ Required \cap token.roles = {}
    BY <1>1, <2>1 DEF W!HasRole, W!StageTrue
  <2>3. QED
    BY <2>1, <2>2, Refused
<1>5. CASE W!RolesAdmit
  <2>1. /\ pc = "roles" /\ W!HasRole /\ pc' = "running"
        /\ UNCHANGED <<token, claims, admitted, status, wire, ended, now, timer, due,
                      finish, logged, uncaught>>
    BY <1>5 DEF W!RolesAdmit, W!response, W!rest
  <2>2. claims = token /\ token.kind = "jwt" /\ admitted < token.exp
        /\ Required \cap token.roles # {} /\ claims # W!None
    BY <1>1, <2>1 DEF W!HasRole, W!StageTrue
  <2>3. W!TypeOK'
    BY <1>1, <2>1 DEF W!TypeOK
  <2>4. W!StageTrue'
    BY <1>1, <2>1, <2>2 DEF W!StageTrue, W!HasRole
  <2>5. W!OneAnswer' /\ W!GuardsHold'
    BY <1>1, <2>1, <2>2 DEF W!OneAnswer, W!GuardsHold
  <2>6. QED
    BY <2>3, <2>4, <2>5 DEF HttpInv
<1>6. QED
  BY <1>2, <1>3, <1>4, <1>5

LEMMA HandlerStep ==
    ASSUME HttpInv,
           W!HandlerAnswers \/ W!HandlerStreams \/ W!HandlerEnds \/ W!HandlerThrows
    PROVE  HttpInv'
<1>1. W!TypeOK /\ W!StageTrue /\ W!OneAnswer /\ W!GuardsHold
  BY DEF HttpInv
<1>2. CASE W!HandlerThrows
  BY <1>2, Refused DEF W!HandlerThrows
<1>3. CASE W!HandlerAnswers
  <2>1. /\ pc = "running" /\ pc' = "over" /\ status' = 200 /\ wire \in {0, 503}
        /\ IF wire = 0 THEN wire' = 200 /\ ended' = TRUE ELSE UNCHANGED <<wire, ended>>
        /\ UNCHANGED <<token, claims, admitted, now, timer, due, finish, logged, uncaught>>
    BY <1>1, <1>3 DEF W!HandlerAnswers, W!Respond, W!headersSent, W!rest, W!StageTrue
  <2>2. W!TypeOK'
    <3>1. wire' \in {0, 200, 401, 403, 500, 503} /\ claims' \in {W!None, token'}
      BY <1>1, <2>1 DEF W!TypeOK
    <3>2. ended' \in BOOLEAN
      BY <1>1, <2>1, Zenon DEF W!TypeOK
    <3>3. QED
      BY <1>1, <2>1, <3>1, <3>2 DEF W!TypeOK
  <2>3. W!StageTrue'
    BY <1>1, <2>1 DEF W!StageTrue
  <2>4. W!OneAnswer' /\ W!GuardsHold'
    BY <1>1, <2>1, Stage DEF W!OneAnswer, W!GuardsHold
  <2>5. QED
    BY <2>2, <2>3, <2>4 DEF HttpInv
<1>4. CASE W!HandlerStreams
  <2>1. /\ pc = "running" /\ pc' = "streaming" /\ wire = 0 /\ wire' = 200
        /\ UNCHANGED <<token, claims, admitted, status, ended, now, timer, due, finish,
                      logged, uncaught>>
    BY <1>4, Stage DEF W!HandlerStreams, W!rest
  <2>2. W!TypeOK'
    <3>1. wire' \in {0, 200, 401, 403, 500, 503} /\ claims' \in {W!None, token'}
      BY <1>1, <2>1 DEF W!TypeOK
    <3>2. QED
      BY <1>1, <2>1, <3>1 DEF W!TypeOK
  <2>3. W!StageTrue'
    BY <1>1, <2>1 DEF W!StageTrue, W!HasRole
  <2>4. W!OneAnswer' /\ W!GuardsHold'
    BY <1>1, <2>1, Stage DEF W!OneAnswer, W!GuardsHold
  <2>5. QED
    BY <2>2, <2>3, <2>4 DEF HttpInv
<1>5. CASE W!HandlerEnds
  <2>1. /\ pc = "streaming" /\ pc' = "over" /\ ended' = TRUE /\ wire = 200
        /\ UNCHANGED <<token, claims, admitted, status, wire, now, timer, due, finish,
                      logged, uncaught>>
    BY <1>1, <1>5 DEF W!HandlerEnds, W!rest, W!StageTrue
  <2>2. W!TypeOK'
    BY <1>1, <2>1 DEF W!TypeOK
  <2>3. W!StageTrue'
    BY <1>1, <2>1 DEF W!StageTrue
  <2>4. W!OneAnswer' /\ W!GuardsHold'
    BY <1>1, <2>1 DEF W!OneAnswer, W!GuardsHold
  <2>5. QED
    BY <2>2, <2>3, <2>4 DEF HttpInv
<1>6. QED
  BY <1>2, <1>3, <1>4, <1>5

(* The timer finds headersSent to be so or not, and answers only if not.   *)
LEMMA TimedOut == ASSUME HttpInv, W!Timeout PROVE HttpInv'
<1>1. W!TypeOK /\ W!StageTrue /\ W!OneAnswer /\ W!GuardsHold
  BY DEF HttpInv
<1>2. /\ timer = "armed" /\ timer' = "fired" /\ pc # "new" /\ uncaught' = FALSE
      /\ UNCHANGED <<token, claims, pc, admitted, now, due, finish, logged>>
      /\ IF wire = 0 THEN status' = 503 /\ wire' = 503 /\ ended' = TRUE
         ELSE UNCHANGED <<status, wire, ended>>
  BY <1>1 DEF W!Timeout, W!Answered, W!Respond, W!headersSent, W!response, W!request,
    W!StageTrue, W!OneAnswer, W!TypeOK
<1>3. W!TypeOK'
  <2>1. ended' \in BOOLEAN /\ uncaught' \in BOOLEAN
    BY <1>1, <1>2, Zenon DEF W!TypeOK
  <2>2. QED
    BY <1>1, <1>2, <2>1 DEF W!TypeOK
<1>4. W!StageTrue'
  BY <1>1, <1>2 DEF W!StageTrue, W!HasRole
<1>5. W!OneAnswer' /\ W!GuardsHold'
  BY <1>1, <1>2, Stage DEF W!OneAnswer, W!GuardsHold
<1>6. QED
  BY <1>3, <1>4, <1>5 DEF HttpInv

LEMMA FinishStep == ASSUME HttpInv, W!Finish \/ W!Abort \/ W!Tick PROVE HttpInv'
<1>1. W!TypeOK /\ W!StageTrue /\ W!OneAnswer /\ W!GuardsHold
  BY DEF HttpInv
<1>2. CASE W!Finish
  <2>1. /\ ended /\ finish' = "emitted" /\ logged' = status /\ wire # 0
        /\ timer' = (IF timer = "armed" THEN "cleared" ELSE timer)
        /\ UNCHANGED <<token, claims, pc, admitted, status, wire, ended, now, due, uncaught>>
    BY <1>1, <1>2 DEF W!Finish, W!request, W!response, W!StageTrue
  <2>2. W!TypeOK'
    BY <1>1, <2>1, Stage DEF W!TypeOK
  <2>3. W!StageTrue'
    BY <1>1, <2>1 DEF W!StageTrue, W!HasRole
  <2>4. W!OneAnswer' /\ W!GuardsHold'
    BY <1>1, <2>1 DEF W!OneAnswer, W!GuardsHold, W!StageTrue
  <2>5. QED
    BY <2>2, <2>3, <2>4 DEF HttpInv
<1>3. CASE W!Abort
  <2>1. /\ finish' = "never"
        /\ UNCHANGED <<token, claims, pc, admitted, status, wire, ended, now, timer, due,
                      logged, uncaught>>
    BY <1>3 DEF W!Abort, W!request, W!response
  <2>2. W!TypeOK'
    BY <1>1, <2>1 DEF W!TypeOK
  <2>3. W!StageTrue' /\ W!OneAnswer' /\ W!GuardsHold'
    BY <1>1, <2>1 DEF W!StageTrue, W!HasRole, W!OneAnswer, W!GuardsHold
  <2>4. QED
    BY <2>2, <2>3 DEF HttpInv
<1>4. CASE W!Tick
  <2>1. /\ now < HttpTime /\ now' = now + 1
        /\ UNCHANGED <<token, claims, pc, admitted, status, wire, ended, timer, due,
                      finish, logged, uncaught>>
    BY <1>4 DEF W!Tick, W!request, W!response
  <2>2. now' \in 0 .. HttpTime /\ (token.exp <= now => token.exp <= now')
    BY <2>1, Stage, RequestTypes
  <2>3. W!TypeOK'
    BY <1>1, <2>1, <2>2 DEF W!TypeOK
  <2>4. W!StageTrue' /\ W!OneAnswer' /\ W!GuardsHold'
    BY <1>1, <2>1, <2>2 DEF W!StageTrue, W!HasRole, W!OneAnswer, W!GuardsHold
  <2>5. QED
    BY <2>3, <2>4 DEF HttpInv
<1>5. QED
  BY <1>2, <1>3, <1>4

LEMMA NextHttp == HttpInv /\ [W!Next]_httpVars => HttpInv'
<1> SUFFICES ASSUME HttpInv, [W!Next]_httpVars PROVE HttpInv'
  OBVIOUS
<1>1. CASE UNCHANGED httpVars
  BY <1>1 DEF httpVars, HttpInv, W!TypeOK, W!StageTrue, W!HasRole, W!OneAnswer, W!GuardsHold
<1>2. QED
  BY <1>1, Arrived, GuardStep, HandlerStep, TimedOut, FinishStep DEF W!Next

-----------------------------------------------------------------------------
(* Retry: until it settles, the loop counter, the calls and the notices go *)
(* together, and every call has rejected.                                  *)
RetryInv == R!TypeOK /\ R!LoopTrue /\ R!ResultTold

LEMMA RetryTypes ==
    ASSUME R!TypeOK
    PROVE  /\ opts.maxAttempts \in Int /\ attempt \in Nat
           /\ outcomes \in Seq({"ok", "stop", "error"}) /\ R!N \in Nat /\ R!N = Len(outcomes)
           /\ retryHooks \in Seq(Nat) /\ Len(retryHooks) \in Nat
<1>1. opts.maxAttempts \in Int
  <2>1. CASE opts = R!NoOptions
    BY <2>1 DEF R!NoOptions
  <2>2. CASE opts \in R!Options
    BY <2>2, CallAssumption DEF R!RetryAssumption, R!Options
  <2>3. QED
    BY <2>1, <2>2 DEF R!TypeOK
<1>2. QED
  BY <1>1 DEF R!TypeOK, R!N

LEMMA InitRetry == R!Init => RetryInv
<1> SUFFICES ASSUME R!Init PROVE RetryInv
  OBVIOUS
<1>1. R!TypeOK
  BY DEF R!Init, R!TypeOK, R!None
<1>2. R!LoopTrue /\ R!ResultTold
  BY DEF R!Init, R!LoopTrue, R!ResultTold, R!None, R!N
<1>3. QED
  BY <1>1, <1>2 DEF RetryInv

LEMMA RetryBegun == ASSUME RetryInv, R!Begin PROVE RetryInv'
<1>1. /\ R!TypeOK /\ retryPc = "start" /\ outcomes = <<>> /\ retryHooks = <<>>
      /\ attempt = 0 /\ result.kind = "none"
      /\ opts' \in R!Options /\ opts'.maxAttempts \in Int
      /\ UNCHANGED <<attempt, last, outcomes, retryHooks, slept>>
  BY CallAssumption DEF RetryInv, R!Begin, R!LoopTrue, R!RetryAssumption, R!Options
<1>2. \/ /\ opts'.maxAttempts < 1 /\ result' = [kind |-> "badOptions", error |-> 0]
         /\ retryPc' = "done"
      \/ opts'.maxAttempts >= 1 /\ retryPc' = "calling" /\ result' = result
  BY <1>1 DEF R!Begin, R!Settles
<1>3. R!TypeOK'
  BY <1>1, <1>2 DEF R!TypeOK
<1>4. R!LoopTrue'
  BY <1>1, <1>2 DEF R!LoopTrue, R!N
<1>5. R!ResultTold'
  <2>1. /\ R!N' = 0 /\ Len(retryHooks') = 0 /\ outcomes' = <<>>
        /\ retryHooks' = [i \in 1 .. Len(retryHooks') |-> i]
    BY <1>1 DEF R!N
  <2>2. retryPc' = "done" => result'.kind = "badOptions"
    BY <1>2
  <2>3. R!SettlesWith' = "badOptions"
    BY <2>1 DEF R!SettlesWith
  <2>4. result'.kind \notin {"maxAttempts", "thrown"}
    BY <1>1, <1>2
  <2>5. attempt' = 0
    BY <1>1
  <2>6. QED
    BY <2>1, <2>2, <2>3, <2>4, <2>5 DEF R!ResultTold
<1>6. QED
  BY <1>3, <1>4, <1>5 DEF RetryInv

(* A call of fn() that settles is the first that has not rejected, or one  *)
(* more that has.                                                          *)
LEMMA CallSettled ==
    ASSUME RetryInv, NEW how \in {"ok", "stop", "error"}, R!FnSettles(how)
    PROVE  /\ R!Call = attempt + 1 /\ R!N' = R!Call
           /\ outcomes' \in Seq({"ok", "stop", "error"}) /\ outcomes' # <<>>
           /\ outcomes'[R!N'] = how
           /\ \A i \in 1 .. R!N' - 1 : outcomes'[i] = "error"
           /\ attempt < opts.maxAttempts /\ Len(retryHooks) = attempt
<1>1. /\ R!TypeOK /\ retryPc = "calling" /\ outcomes' = Append(outcomes, how)
      /\ Len(outcomes) = attempt /\ Len(retryHooks) = attempt
      /\ attempt < opts.maxAttempts
      /\ \A i \in 1 .. Len(outcomes) : outcomes[i] = "error"
  BY RetryTypes DEF RetryInv, R!FnSettles, R!LoopTrue, R!N
<1>2. /\ outcomes' \in Seq({"ok", "stop", "error"}) /\ outcomes' # <<>>
      /\ Len(outcomes') = Len(outcomes) + 1 /\ Len(outcomes) \in Nat
      /\ outcomes'[Len(outcomes) + 1] = how
      /\ \A i \in 1 .. Len(outcomes) : outcomes'[i] = outcomes[i]
  BY <1>1, RetryTypes
<1>3. QED
  BY <1>1, <1>2, RetryTypes DEF R!Call, R!N

LEMMA FnSettled == ASSUME RetryInv, R!FnFulfils \/ R!FnStops \/ R!FnRejects PROVE RetryInv'
<1>1. R!TypeOK /\ R!ResultTold /\ R!Call \in Nat /\ R!LoopTrue
  BY RetryTypes DEF RetryInv, R!Call, R!N
<1>2. CASE R!FnFulfils \/ R!FnStops
  <2>1. PICK how \in {"ok", "stop"} :
          /\ R!FnSettles(how)
          /\ result' = [kind |-> IF how = "ok" THEN "value" ELSE "cause", error |-> R!Call]
          /\ retryPc' = "done" /\ UNCHANGED <<opts, attempt, last, retryHooks, slept>>
    BY <1>2, Zenon DEF R!FnFulfils, R!FnStops, R!Settles
  <2>2. R!TypeOK'
    BY <1>1, <2>1, CallSettled DEF R!TypeOK
  <2>3. R!LoopTrue'
    BY <2>1 DEF R!LoopTrue
  <2>4. R!ResultTold'
    <3>1. result'.kind = R!SettlesWith' /\ result'.kind \notin {"maxAttempts", "thrown"}
      <4>1. outcomes' # <<>> /\ outcomes'[R!N'] = how
        BY <2>1, CallSettled
      <4>2. R!SettlesWith' = (IF how = "ok" THEN "value" ELSE "cause")
        BY <4>1 DEF R!SettlesWith
      <4>3. QED
        BY <2>1, <4>2
    <3>2. /\ R!N' = attempt + 1 /\ R!N' <= opts'.maxAttempts
          /\ Len(retryHooks') = R!N' - 1 /\ R!N' # 0
      BY <2>1, CallSettled, RetryTypes, <1>1
    <3>3. QED
      BY <1>1, <2>1, <3>1, <3>2, CallSettled DEF R!ResultTold
  <2>5. QED
    BY <2>2, <2>3, <2>4 DEF RetryInv
<1>3. CASE R!FnRejects
  <2>1. /\ R!FnSettles("error") /\ last' = R!Call
        /\ UNCHANGED <<opts, retryHooks, slept>>
        /\ IF R!MoreAttempts THEN retryPc' = "failed" /\ UNCHANGED <<attempt, result>>
           ELSE /\ attempt' = attempt + 1 /\ retryPc' = "done"
                /\ result' = [kind |-> "maxAttempts", error |-> R!Call]
    BY <1>3 DEF R!FnRejects, R!Settles
  <2>2. R!TypeOK'
    BY <1>1, <2>1, CallSettled, RetryTypes DEF R!TypeOK
  <2>3. /\ R!N' = attempt + 1 /\ last' = R!N' /\ R!N' <= opts'.maxAttempts /\ R!N' # 0
        /\ Len(retryHooks') = attempt
        /\ \A i \in 1 .. R!N' : outcomes'[i] = "error"
    BY <1>1, <2>1, CallSettled, RetryTypes
  <2>4. CASE R!MoreAttempts
    <3>1. retryPc' = "failed" /\ attempt' = attempt /\ result'.kind = "none" /\ R!MoreAttempts'
      BY <1>1, <2>1, <2>4 DEF R!LoopTrue, R!FnSettles, R!MoreAttempts
    <3>2. R!LoopTrue'
      BY <1>1, <2>1, <2>3, <3>1, CallSettled DEF R!LoopTrue
    <3>3. R!ResultTold'
      BY <1>1, <2>1, <2>3, <3>1, CallSettled DEF R!ResultTold
    <3>4. QED
      BY <2>2, <3>2, <3>3 DEF RetryInv
  <2>5. CASE ~R!MoreAttempts
    <3>1. /\ retryPc' = "done" /\ result'.kind = "maxAttempts" /\ R!N' = opts'.maxAttempts
      BY <1>1, <2>1, <2>3, <2>5, CallSettled, RetryTypes DEF R!MoreAttempts
    <3>2. R!LoopTrue'
      BY <3>1 DEF R!LoopTrue
    <3>3. result'.kind = R!SettlesWith'
      BY <2>1, <2>3, <3>1, CallSettled DEF R!SettlesWith
    <3>4. R!ResultTold'
      BY <1>1, <2>1, <2>3, <3>1, <3>3, CallSettled DEF R!ResultTold
    <3>5. QED
      BY <2>2, <3>2, <3>4 DEF RetryInv
  <2>6. QED
    BY <2>4, <2>5
<1>4. QED
  BY <1>2, <1>3

(* onRetry() is told the number of the call that has rejected.             *)
LEMMA Noticed ==
    ASSUME RetryInv, retryPc = "failed", retryHooks' = Append(retryHooks, attempt + 1)
    PROVE  /\ R!N = attempt + 1 /\ Len(retryHooks') = attempt + 1
           /\ retryHooks' \in Seq(Nat)
           /\ retryHooks' = [i \in 1 .. Len(retryHooks') |-> i]
<1>1. /\ R!N = attempt + 1 /\ Len(retryHooks) = attempt /\ attempt \in Nat
      /\ retryHooks \in Seq(Nat) /\ retryHooks = [i \in 1 .. Len(retryHooks) |-> i]
  BY RetryTypes DEF RetryInv, R!LoopTrue, R!ResultTold
<1>2. /\ retryHooks' \in Seq(Nat) /\ Len(retryHooks') = attempt + 1
      /\ retryHooks'[attempt + 1] = attempt + 1
      /\ \A i \in 1 .. attempt : retryHooks'[i] = retryHooks[i]
  BY <1>1
<1>3. \A i \in 1 .. attempt + 1 : retryHooks'[i] = i
  BY <1>1, <1>2
<1>4. QED
  BY <1>1, <1>2, <1>3

LEMMA Waited == ASSUME RetryInv, R!Backs \/ R!HookThrows \/ R!Wakes PROVE RetryInv'
<1>1. /\ R!TypeOK /\ R!ResultTold /\ R!LoopTrue /\ attempt \in Nat
      /\ opts.maxAttempts \in Int
  BY RetryTypes DEF RetryInv
<1>2. CASE R!Backs
  <2>1. /\ retryPc = "failed" /\ retryHooks' = Append(retryHooks, attempt + 1)
        /\ \/ retryPc' = "sleeping" /\ attempt' = attempt
           \/ retryPc' = "calling" /\ attempt' = attempt + 1
        /\ UNCHANGED <<opts, last, result, outcomes>>
    BY <1>2 DEF R!Backs
  <2>2. /\ attempt < opts.maxAttempts - 1 /\ result.kind = "none"
        /\ \A i \in 1 .. R!N : outcomes[i] = "error"
    BY <1>1, <2>1 DEF R!LoopTrue, R!MoreAttempts
  <2>3. R!TypeOK'
    BY <1>1, <2>1, Noticed DEF R!TypeOK
  <2>4. R!LoopTrue'
    BY <1>1, <2>1, <2>2, Noticed DEF R!LoopTrue, R!N, R!MoreAttempts
  <2>5. R!ResultTold'
    BY <1>1, <2>1, <2>2, Noticed DEF R!ResultTold, R!N
  <2>6. QED
    BY <2>3, <2>4, <2>5 DEF RetryInv
<1>3. CASE R!HookThrows
  <2>1. /\ retryPc = "failed" /\ retryHooks' = Append(retryHooks, attempt + 1)
        /\ retryPc' = "done" /\ result' = [kind |-> "thrown", error |-> R!Call]
        /\ UNCHANGED <<opts, attempt, last, outcomes, slept>>
    BY <1>3 DEF R!HookThrows, R!Settles
  <2>2. /\ R!N = attempt + 1 /\ R!N < opts.maxAttempts /\ R!N' = R!N
        /\ \A i \in 1 .. R!N : outcomes[i] = "error"
    BY <1>1, <2>1, Noticed DEF R!LoopTrue, R!MoreAttempts, R!N
  <2>3. outcomes # <<>> /\ outcomes[R!N] = "error" /\ R!Call \in Nat
    BY <1>1, <2>2, RetryTypes DEF R!Call, R!N
  <2>4. R!TypeOK'
    BY <1>1, <2>1, <2>3, Noticed DEF R!TypeOK
  <2>5. R!LoopTrue'
    BY <2>1 DEF R!LoopTrue
  <2>6. R!SettlesWith' = "thrown"
    BY <1>1, <2>1, <2>2, <2>3 DEF R!SettlesWith
  <2>7. R!ResultTold'
    BY <1>1, <2>1, <2>2, <2>3, <2>6, Noticed DEF R!ResultTold
  <2>8. QED
    BY <2>4, <2>5, <2>7 DEF RetryInv
<1>4. CASE R!Wakes
  <2>1. /\ retryPc = "sleeping" /\ retryPc' = "calling" /\ attempt' = attempt + 1
        /\ UNCHANGED <<opts, last, result, outcomes, retryHooks, slept>>
    BY <1>4 DEF R!Wakes
  <2>2. R!TypeOK'
    BY <1>1, <2>1 DEF R!TypeOK
  <2>3. R!LoopTrue'
    BY <1>1, <2>1 DEF R!LoopTrue, R!N, R!MoreAttempts
  <2>4. R!ResultTold'
    BY <1>1, <2>1 DEF R!ResultTold, R!N, R!LoopTrue
  <2>5. QED
    BY <2>2, <2>3, <2>4 DEF RetryInv
<1>5. QED
  BY <1>2, <1>3, <1>4

LEMMA NextRetry == RetryInv /\ [R!Next]_retryVars => RetryInv'
<1> SUFFICES ASSUME RetryInv, [R!Next]_retryVars PROVE RetryInv'
  OBVIOUS
<1>1. CASE UNCHANGED retryVars
  BY <1>1 DEF retryVars, RetryInv, R!TypeOK, R!LoopTrue, R!ResultTold, R!SettlesWith, R!N,
    R!MoreAttempts
<1>2. QED
  BY <1>1, RetryBegun, FnSettled, Waited DEF R!Next

-----------------------------------------------------------------------------
(* The waits of a retried call.  What Math.pow() returns takes induction:  *)
(* over a set of numbers, as the order of the numbers is well-founded.     *)

LEMMA SetInduction ==
  ASSUME NEW T, 0 \in T, \A n \in Nat : n \in T => n + 1 \in T
  PROVE  Nat \subseteq T
<1> DEFINE U == Nat \ T
           less == OpToRel(<, Nat)
<1> SUFFICES ASSUME U # {} PROVE FALSE
  OBVIOUS
<1>1. \A m, n \in Nat : m < n => <<m, n>> \in less
  BY DEF OpToRel
<1>2. PICK n \in U : \A m \in U : <<m, n>> \notin less
  <2>1. IsWellFoundedOn(less, Nat)
    BY NatLessThanWellFounded
  <2>2. U \subseteq Nat
    OBVIOUS
  <2> HIDE DEF U, less
  <2> QED BY <2>1, <2>2, WFMin
<1>3. n \in Nat /\ n # 0
  OBVIOUS
<1>4. n - 1 \in Nat /\ n - 1 < n /\ (n - 1) + 1 = n
  BY <1>3
<1>5. n - 1 \in T
  BY <1>1, <1>2, <1>4
<1> QED BY <1>4, <1>5

(***************************************************************************)
(* The recursive function of Power() exists: on 0 .. n there is one table  *)
(* of it and no other, for every n, and a table's last entries put         *)
(* together are the function.                                              *)
(***************************************************************************)
Table(m, n, f) ==
    f \in [0 .. n -> Nat] /\ f[0] = 1 /\ \A k \in 1 .. n : f[k] = m * f[k - 1]

LEMMA TableExists ==
  ASSUME NEW m \in Nat
  PROVE  \A n \in Nat : \E f : Table(m, n, f)
<1> DEFINE T == {n \in Nat : \E f : Table(m, n, f)}
<1>1. 0 \in T
  <2>1. Table(m, 0, [k \in 0 .. 0 |-> 1])
    BY DEF Table
  <2> QED BY <2>1
<1>2. ASSUME NEW n \in Nat, n \in T PROVE n + 1 \in T
  <2>1. PICK f : Table(m, n, f)
    BY <1>2
  <2> DEFINE g == [k \in 0 .. n + 1 |-> IF k <= n THEN f[k] ELSE m * f[n]]
  <2>2. f[n] \in Nat /\ m * f[n] \in Nat
    BY <2>1 DEF Table
  <2>3. g \in [0 .. n + 1 -> Nat]
    BY <2>1, <2>2 DEF Table
  <2>4. g[0] = 1
    BY <2>1 DEF Table
  <2>5. ASSUME NEW k \in 1 .. n + 1 PROVE g[k] = m * g[k - 1]
    <3>1. k - 1 \in 0 .. n /\ g[k - 1] = f[k - 1]
      OBVIOUS
    <3>2. CASE k <= n
      <4>1. k \in 1 .. n /\ g[k] = f[k]
        BY <3>2
      <4> QED BY <2>1, <3>1, <4>1 DEF Table
    <3>3. CASE k = n + 1
      BY <3>1, <3>3
    <3> QED BY <3>2, <3>3
  <2> HIDE DEF g
  <2>6. Table(m, n + 1, g)
    BY <2>3, <2>4, <2>5 DEF Table
  <2> QED BY <2>6
<1> HIDE DEF T
<1>3. Nat \subseteq T
  BY <1>1, <1>2, SetInduction
<1> QED BY <1>3 DEF T

LEMMA TableUnique ==
  ASSUME NEW m \in Nat, NEW a \in Nat, NEW b \in Nat, NEW f, NEW g,
         Table(m, a, f), Table(m, b, g)
  PROVE  \A k \in Nat : k <= a /\ k <= b => f[k] = g[k]
<1> DEFINE T == {k \in Nat : k <= a /\ k <= b => f[k] = g[k]}
<1>1. 0 \in T
  BY DEF Table
<1>2. ASSUME NEW n \in Nat, n \in T PROVE n + 1 \in T
  <2>1. ASSUME n + 1 <= a, n + 1 <= b PROVE f[n + 1] = g[n + 1]
    <3>1. n + 1 \in 1 .. a /\ n + 1 \in 1 .. b /\ (n + 1) - 1 = n /\ n <= a /\ n <= b
      BY <2>1
    <3>2. f[n + 1] = m * f[n] /\ g[n + 1] = m * g[n]
      BY <3>1 DEF Table
    <3> QED BY <1>2, <3>1, <3>2
  <2> QED BY <2>1
<1> HIDE DEF T
<1>3. Nat \subseteq T
  BY <1>1, <1>2, SetInduction
<1> QED BY <1>3 DEF T

LEMMA PowerSteps ==
  ASSUME NEW m \in Nat
  PROVE  /\ R!Power(m, 0) = 1
         /\ \A n \in Nat : R!Power(m, n) \in Nat /\ R!Power(m, n + 1) = m * R!Power(m, n)
<1> DEFINE Eq(q) == q = [k \in Nat |-> IF k = 0 THEN 1 ELSE m * q[k - 1]]
           t(n) == CHOOSE f : Table(m, n, f)
           p == [n \in Nat |-> t(n)[n]]
           r == CHOOSE q : Eq(q)
<1>1. \A n \in Nat : Table(m, n, t(n))
  BY TableExists
<1> HIDE DEF t
<1>2. \A n \in Nat : p[n] \in Nat
  BY <1>1 DEF Table
<1>3. p[0] = 1
  BY <1>1 DEF Table
<1>4. ASSUME NEW n \in Nat, n # 0 PROVE p[n] = m * p[n - 1]
  <2>1. n - 1 \in Nat /\ n \in 1 .. n /\ n - 1 <= n
    BY <1>4
  <2>2. t(n)[n] = m * t(n)[n - 1]
    BY <1>1, <2>1 DEF Table
  <2>3. t(n)[n - 1] = t(n - 1)[n - 1]
    BY <1>1, <2>1, TableUnique
  <2> QED BY <2>1, <2>2, <2>3
<1>5. Eq(p)
  BY <1>3, <1>4
<1>6. Eq(r)
  <2> HIDE DEF Eq, p
  <2> QED BY <1>5
<1>7. r[0] = 1 /\ \A n \in Nat : n # 0 => r[n] = m * r[n - 1]
  <2> HIDE DEF r
  <2> QED BY <1>6
<1> HIDE DEF r
<1>8. \A n \in Nat : r[n + 1] = m * r[n]
  <2> TAKE n \in Nat
  <2>1. n + 1 \in Nat /\ n + 1 # 0 /\ (n + 1) - 1 = n
    OBVIOUS
  <2> QED BY <1>7, <2>1
<1>9. \A n \in Nat : r[n] \in Nat
  <2> DEFINE T == {n \in Nat : r[n] \in Nat}
  <2>1. 0 \in T
    BY <1>7
  <2>2. \A n \in Nat : n \in T => n + 1 \in T
    BY <1>8
  <2> HIDE DEF T
  <2>3. Nat \subseteq T
    BY <2>1, <2>2, SetInduction
  <2> QED BY <2>3 DEF T
<1>10. \A n : R!Power(m, n) = r[n]
  BY DEF R!Power, r
<1> QED BY <1>7, <1>8, <1>9, <1>10

(* The delay is a whole number, and no smaller for a later attempt.        *)
LEMMA OptionTypes ==
    ASSUME R!TypeOK
    PROVE  opts.initial \in Nat /\ opts.multiplier \in Nat /\ opts.multiplier >= 1
           /\ opts.max \in Nat
<1>1. CASE opts = R!NoOptions
  BY <1>1 DEF R!NoOptions
<1>2. CASE opts \in R!Options
  <2>1. opts.initial \in InitialMs /\ opts.multiplier \in Multiplier /\ opts.max \in MaxMs
    BY <1>2 DEF R!Options
  <2>2. InitialMs \subseteq Nat /\ MaxMs \subseteq Nat /\ Multiplier \subseteq Nat \ {0}
    BY CallAssumption DEF R!RetryAssumption
  <2>3. opts.multiplier \in Nat \ {0}
    BY <2>1, <2>2
  <2>4. opts.multiplier \in Nat /\ opts.multiplier >= 1
    BY <2>3
  <2>5. opts.initial \in Nat /\ opts.max \in Nat
    BY <2>1, <2>2, Zenon
  <2>6. QED
    BY <2>4, <2>5
<1>3. QED
  BY <1>1, <1>2 DEF R!TypeOK

LEMMA TimesOrder ==
    ASSUME NEW a \in Nat, NEW b \in Nat, NEW c \in Nat, a <= b
    PROVE  c * a \in Nat /\ c * a <= c * b
<1>1. PICK d \in Nat : b = a + d
  <2>1. b - a \in Nat /\ b = a + (b - a)
    OBVIOUS
  <2>2. QED
    BY <2>1
<1>2. c * b = c * a + c * d
  BY <1>1
<1>3. c * d \in Nat /\ c * a \in Nat
  OBVIOUS
<1>4. QED
  BY <1>2, <1>3

LEMMA DelaysGrow ==
    ASSUME R!TypeOK, NEW n \in Nat
    PROVE  /\ R!Exponential(n) \in Nat
           /\ R!Exponential(n) <= R!Exponential(n + 1)
           /\ opts.max > 0 => R!Exponential(n) <= opts.max
<1> DEFINE P == R!Power(opts.multiplier, n)
           Q == R!Power(opts.multiplier, n + 1)
<1>1. /\ opts.initial \in Nat /\ opts.multiplier \in Nat /\ opts.multiplier >= 1
      /\ opts.max \in Nat
  BY OptionTypes
<1>2. P \in Nat /\ Q \in Nat /\ Q = opts.multiplier * P
  <2>1. \A k \in Nat : /\ R!Power(opts.multiplier, k) \in Nat
                       /\ R!Power(opts.multiplier, k + 1)
                            = opts.multiplier * R!Power(opts.multiplier, k)
    BY <1>1, PowerSteps
  <2>2. n + 1 \in Nat
    OBVIOUS
  <2>3. QED
    BY <2>1, <2>2, Zenon
<1> HIDE DEF P, Q
<1>3. P <= Q
  <2>1. P * 1 <= P * opts.multiplier
    BY <1>1, <1>2, TimesOrder
  <2>2. P * 1 = P /\ P * opts.multiplier = opts.multiplier * P
    BY <1>1, <1>2
  <2>3. QED
    BY <1>2, <2>1, <2>2
<1>4. /\ opts.initial * P \in Nat /\ opts.initial * Q \in Nat
      /\ opts.initial * P <= opts.initial * Q
  BY <1>1, <1>2, <1>3, TimesOrder
<1>5. R!Uncapped(n) = opts.initial * P /\ R!Uncapped(n + 1) = opts.initial * Q
  BY DEF R!Uncapped, P, Q
<1>6. QED
  BY <1>1, <1>4, <1>5 DEF R!Exponential

(* Every wait is what the backoff function said for its attempt, so a      *)
(* later one is not shorter.                                               *)
WaitsInv == RetryInv /\ R!SleptTold

LEMMA InitWaits == R!Init => WaitsInv
<1>1. R!Init => R!SleptTold
  BY DEF R!Init, R!SleptTold
<1>2. QED
  BY <1>1, InitRetry DEF WaitsInv

LEMMA WaitAppended ==
    ASSUME WaitsInv, R!Backs
    PROVE  R!SleptTold'
<1>1. /\ R!TypeOK /\ retryPc = "failed" /\ slept \in Seq(Nat) /\ Len(slept) = attempt
      /\ attempt \in Nat /\ opts' = opts
  BY RetryTypes DEF WaitsInv, RetryInv, R!SleptTold, R!Backs
<1>2. PICK d \in R!Delays(attempt) :
        IF d > 0 THEN /\ slept' = Append(slept, R!Waits(d))
                      /\ retryPc' = "sleeping" /\ attempt' = attempt
                 ELSE /\ slept' = Append(slept, 0)
                      /\ retryPc' = "calling" /\ attempt' = attempt + 1
  BY DEF R!Backs
<1>3. R!Exponential(attempt) \in Nat
  BY <1>1, DelaysGrow
<1>4. d \in Nat /\ (~opts.jitter => d = R!Exponential(attempt))
  BY <1>2, <1>3 DEF R!Delays
<1>5. R!Waits(d) \in Nat /\ (~(d > 0) => d = 0 /\ R!Waits(d) = 0)
  BY <1>4, CallAssumption DEF R!RetryAssumption, R!Waits
<1>6. slept' = Append(slept, R!Waits(d))
  BY <1>2, <1>5
<1>7. /\ slept' \in Seq(Nat) /\ Len(slept') = attempt + 1
      /\ slept'[attempt + 1] = R!Waits(d)
      /\ \A i \in 1 .. attempt : slept'[i] = slept[i]
  BY <1>1, <1>5, <1>6
<1>8. /\ retryPc' # "start"
      /\ Len(slept') = attempt' + (IF retryPc' = "sleeping" THEN 1 ELSE 0)
  BY <1>1, <1>2, <1>7
<1>9. ASSUME ~opts.jitter, NEW i \in 1 .. Len(slept')
      PROVE  slept'[i] = R!Waits(R!Exponential(i - 1))
  <2>1. CASE i = attempt + 1
    BY <1>1, <1>4, <1>7, <1>9, <2>1
  <2>2. CASE i \in 1 .. attempt
    BY <1>1, <1>7, <1>9, <2>2 DEF WaitsInv, R!SleptTold
  <2>3. QED
    BY <1>1, <1>7, <2>1, <2>2
<1>10. ASSUME NEW n PROVE R!Waits(R!Exponential(n))' = R!Waits(R!Exponential(n))
  BY <1>1 DEF R!Waits, R!Exponential, R!Uncapped
<1>11. QED
  BY <1>1, <1>7, <1>8, <1>9, <1>10 DEF R!SleptTold

LEMMA NextWaits == WaitsInv /\ [R!Next]_retryVars => WaitsInv'
<1> SUFFICES ASSUME WaitsInv, [R!Next]_retryVars PROVE R!SleptTold'
  BY NextRetry DEF WaitsInv
<1>1. CASE R!Begin
  <2>1. /\ retryPc = "start" /\ slept = <<>> /\ slept' = <<>> /\ attempt' = 0
        /\ retryPc' \in {"calling", "done"}
    BY <1>1 DEF WaitsInv, RetryInv, R!SleptTold, R!LoopTrue, R!Begin, R!Settles
  <2>2. QED
    BY <2>1 DEF R!SleptTold
<1>2. CASE R!FnFulfils \/ R!FnStops \/ R!FnRejects \/ R!HookThrows \/ R!Wakes
           \/ UNCHANGED retryVars
  <2>1. opts' = opts /\ slept' = slept /\ R!SleptTold /\ attempt \in Nat
    BY <1>2, RetryTypes DEF WaitsInv, RetryInv, R!FnFulfils, R!FnStops, R!FnRejects,
      R!HookThrows, R!Wakes, retryVars
  <2>2. /\ retryPc' = "start" => retryPc = "start"
        /\ retryPc' \in {"calling", "failed", "sleeping"} =>
              Len(slept) = attempt' + (IF retryPc' = "sleeping" THEN 1 ELSE 0)
    BY <1>2, <2>1 DEF R!SleptTold, R!FnFulfils, R!FnStops, R!FnRejects, R!FnSettles,
      R!HookThrows, R!Wakes, R!Settles, retryVars
  <2>3. ASSUME NEW n PROVE R!Waits(R!Exponential(n))' = R!Waits(R!Exponential(n))
    BY <2>1 DEF R!Waits, R!Exponential, R!Uncapped
  <2>4. QED
    BY <2>1, <2>2, <2>3 DEF R!SleptTold
<1>3. CASE R!Backs
  BY <1>3, WaitAppended
<1>4. QED
  BY <1>1, <1>2, <1>3 DEF R!Next

(* With a cap that setTimeout() keeps, sleeping does as the backoff says.  *)
LEMMA ToldGrows == WaitsInv => R!BackoffGrows
<1> SUFFICES ASSUME WaitsInv, NEW i \in 1 .. Len(slept), NEW j \in 1 .. Len(slept),
                    i < j, ~opts.jitter, opts.max \in 1 .. TimerLimit
             PROVE  slept[i] <= slept[j] /\ slept[j] <= opts.max
  BY DEF R!BackoffGrows
<1>1. R!TypeOK /\ slept \in Seq(Nat) /\ Len(slept) \in Nat
  BY DEF WaitsInv, RetryInv, R!SleptTold
<1>2. /\ slept[i] = R!Waits(R!Exponential(i - 1))
      /\ slept[j] = R!Waits(R!Exponential(j - 1))
  BY DEF WaitsInv, R!SleptTold
<1> DEFINE T == {d \in Nat : R!Exponential(i - 1) <= R!Exponential((i - 1) + d)}
<1>3. i - 1 \in Nat /\ j - i \in Nat /\ (i - 1) + (j - i) = j - 1 /\ j - 1 \in Nat
  BY <1>1
<1>0. \A n \in Nat : /\ R!Exponential(n) \in Nat
                     /\ R!Exponential(n) <= R!Exponential(n + 1)
                     /\ opts.max > 0 => R!Exponential(n) <= opts.max
  BY <1>1, DelaysGrow
<1>4. 0 \in T
  BY <1>0, <1>3
<1>5. ASSUME NEW d \in Nat, d \in T PROVE d + 1 \in T
  <2>1. (i - 1) + d \in Nat /\ (i - 1) + (d + 1) = ((i - 1) + d) + 1
    BY <1>3
  <2>2. /\ R!Exponential((i - 1) + d) <= R!Exponential((i - 1) + (d + 1))
        /\ R!Exponential(i - 1) \in Nat /\ R!Exponential((i - 1) + d) \in Nat
    BY <1>0, <1>3, <2>1, Zenon
  <2>4. R!Exponential((i - 1) + (d + 1)) \in Nat
    <3>1. (i - 1) + (d + 1) \in Nat
      BY <2>1
    <3>2. QED
      BY <1>0, <3>1, Zenon
  <2>3. QED
    BY <1>5, <2>2, <2>4
<1>6. R!Exponential(i - 1) <= R!Exponential(j - 1)
  <2>1. Nat \subseteq T
    <3> HIDE DEF T
    <3>1. QED
      BY <1>4, <1>5, SetInduction
  <2>2. QED
    BY <1>3, <2>1
<1>7. /\ R!Exponential(i - 1) \in Nat /\ R!Exponential(j - 1) \in Nat
      /\ R!Exponential(i - 1) <= opts.max /\ R!Exponential(j - 1) <= opts.max
  <2>1. opts.max > 0
    <3>1. TimerLimit \in Nat
      BY CallAssumption DEF R!RetryAssumption
    <3>2. QED
      BY <3>1
  <2>2. QED
    BY <1>0, <1>3, <2>1, Zenon
<1>8. TimerLimit \in Nat
  BY CallAssumption DEF R!RetryAssumption
<1>9. QED
  BY <1>2, <1>6, <1>7, <1>8 DEF R!Waits

-----------------------------------------------------------------------------
(* All of them side by side.                                               *)

Invs ==
    /\ MigrationsInv /\ HealthInv /\ SchedulerInv /\ GracefulInv
    /\ ConfigInv /\ ValidatorInv /\ F!TypeOK
    /\ HttpInv /\ RetryInv

(* A step of MCService is one of a part or leaves it alone.                *)
LEMMA Parts ==
    [AllNext]_allVars =>
        /\ [Next]_vars /\ [H!Next]_healthVars
        /\ [J!Next]_schedVars /\ [G!Next]_gracefulVars
        /\ [C!Next]_configVars /\ [V!Next]_validatorVars /\ [F!Next]_flags
        /\ [W!Next]_httpVars /\ [R!Next]_retryVars
  BY DEF AllNext, allVars, settingVars, requestVars, processVars

LEMMA Invariants == AllSpec => []Invs
<1>1. AllInit => Invs
  BY InitMigrations, InitHealth, InitScheduler, InitGraceful, InitConfig, InitValidator,
    InitFlags, InitHttp, InitRetry DEF AllInit, Invs
<1>2. Invs /\ [AllNext]_allVars => Invs'
  BY Parts, NextMigrations, NextHealth, NextScheduler, NextGraceful, NextConfig,
    NextValidator, NextFlags, NextHttp, NextRetry DEF Invs
<1>3. QED
  BY <1>1, <1>2, PTL DEF AllSpec

(* A migration takes effect exactly as often as it is recorded, so once at *)
(* most, however many processes of whichever releases run migrate() at the *)
(* same time, and whatever fails.                                          *)
THEOREM MigrationsOnce == AllSpec => []EffectsOnce
<1>1. Invs => EffectsOnce
  BY DEF Invs, MigrationsInv
<1>2. QED
  BY <1>1, Invariants, PTL

(* Migrations are applied in order and migrate() returns when they all     *)
(* are; isHealthy() tells what the checkers said; every dispatch has its   *)
(* cause; and every shutdown() calls the hooks last first, once each, and  *)
(* exits with 0 only if all of them fulfilled in time.                     *)
THEOREM Safety == AllSpec => []ServiceSafety
<1>1. Invs => ServiceSafety
  BY GracefulSuffices DEF Invs, MigrationsInv, HealthInv, SchedulerInv, GracefulInv,
    ServiceSafety
<1>2. QED
  BY <1>1, Invariants, PTL

(* Every wait between two attempts is as long as the backoff function says *)
(* for the attempt that failed, and with a cap no shorter than the waits   *)
(* before it and no longer than the cap, for all options and any number of *)
(* attempts.                                                               *)
THEOREM Waiting == AllSpec => []WaitsGrow
<1>1. AllInit => WaitsInv
  BY InitWaits DEF AllInit
<1>2. WaitsInv /\ [AllNext]_allVars => WaitsInv'
  BY Parts, NextWaits
<1>3. WaitsInv => WaitsGrow
  BY ToldGrows DEF WaitsInv, WaitsGrow
<1>4. QED
  BY <1>1, <1>2, <1>3, PTL DEF AllSpec

(* After stop() no handler is started until the next start(): the timers   *)
(* that could are gone, and no start() is in the middle of its loop.       *)
THEOREM Quiet == AllSpec => QuietAfterStop
<1>1. ASSUME SchedulerInv, [J!Next]_schedVars, stopped, NEW e \in J!Entry
      PROVE  active'[e] <= active[e]
  <2>1. J!TypeOK /\ pending = {} /\ loop = 0
    BY <1>1 DEF SchedulerInv, J!TypeOK, J!StoppedIsIdle
  <2>2. active[e] \in Nat /\ active \in [J!Entry -> 0 .. JobOverlap]
    BY <2>1, TimerTypes DEF J!TypeOK
  <2>3. CASE active' = active
    BY <2>2, <2>3
  <2>4. CASE \E f \in J!Entry : active' = [active EXCEPT ![f] = @ - 1]
    BY <2>2, <2>4
  <2>5. ~J!AtEntry
    BY <2>1 DEF J!AtEntry
  <2>6. QED
    BY <1>1, <2>1, <2>3, <2>4, <2>5 DEF J!Next, J!Add, J!Start, J!ScheduleOnce,
      J!ScheduleEvery, J!LoopEnds, J!Stop, J!Fire, J!Settle, schedVars
<1>2. Invs /\ [AllNext]_allVars =>
        [stopped => \A e \in J!Entry : active'[e] <= active[e]]_schedVars
  BY <1>1, Parts DEF Invs
<1>3. QED
  BY <1>2, Invariants, PTL DEF AllSpec, QuietAfterStop, J!QuietAfterStop, J!vars, schedVars

(* What the settings say is what was put there: loadConfig() returns a     *)
(* whole instance or names all that is wrong, validate() throws for values *)
(* that broke a rule and for no others if the expression of the rule is    *)
(* neither global nor sticky, and what isEnabled() enables (but at 0 per   *)
(* cent), isEnabledFor() enables for every entity.                         *)
THEOREM Settings == AllSpec => []SettingsTrue
<1>1. Invs => SettingsTrue
  BY FlagsAgree DEF Invs, ConfigInv, ValidatorInv, SettingsTrue
<1>2. QED
  BY <1>1, Invariants, PTL

(* No step that raises a rollout takes the feature from an entity, or      *)
(* changes an answer about another flag.                                   *)
THEOREM Raised == AllSpec => RolloutKept
<1> DEFINE Kept(k) ==
             flags'[k] # flags[k] /\ F!Wider(flags[k], flags'[k]) =>
                /\ \A e \in Entity : F!IsEnabledFor(k, e) => F!IsEnabledFor(k, e)'
                /\ \A i \in FlagKey \ {k} :
                     /\ F!IsEnabled(i)' = F!IsEnabled(i)
                     /\ \A e \in Entity : F!IsEnabledFor(i, e)' = F!IsEnabledFor(i, e)
<1>1. ASSUME F!TypeOK, F!TypeOK', [F!Next]_flags, NEW k \in FlagKey PROVE Kept(k)
  <2> SUFFICES ASSUME flags'[k] # flags[k], F!Wider(flags[k], flags'[k])
               PROVE  /\ \A e \in Entity : F!IsEnabledFor(k, e) => F!IsEnabledFor(k, e)'
                      /\ \A i \in FlagKey \ {k} :
                           /\ F!IsEnabled(i)' = F!IsEnabled(i)
                           /\ \A e \in Entity :
                                F!IsEnabledFor(i, e)' = F!IsEnabledFor(i, e)
    OBVIOUS
  <2>1. \A e \in Entity : F!IsEnabledFor(k, e) => F!IsEnabledFor(k, e)'
    BY <1>1, RaisedKeeps
  <2>2. \A i \in FlagKey \ {k} : flags'[i] = flags[i]
    BY <1>1, OthersKept
  <2>3. ASSUME NEW i \in FlagKey \ {k}
        PROVE  /\ F!IsEnabled(i)' = F!IsEnabled(i)
               /\ \A e \in Entity : F!IsEnabledFor(i, e)' = F!IsEnabledFor(i, e)
    BY <2>2 DEF F!IsEnabled, F!IsEnabledFor, F!Rollout
  <2>4. QED
    BY <2>1, <2>3
<1>2. Invs /\ Invs' /\ [AllNext]_allVars => [\A k \in FlagKey : Kept(k)]_flags
  BY <1>1, Parts DEF Invs
<1>3. QED
  BY <1>2, Invariants, PTL DEF AllSpec, RolloutKept, F!RolloutKept

(* A request reaches its handler with good claims only, is answered once   *)
(* and logged with what was sent; retry() settles with what the calls of   *)
(* fn() did, and gives them no more than maxAttempts.                      *)
THEOREM Calls == AllSpec => []CallsTrue
<1>1. Invs => CallsTrue
  BY DEF Invs, HttpInv, RetryInv, CallsTrue
<1>2. QED
  BY <1>1, Invariants, PTL
=============================================================================
