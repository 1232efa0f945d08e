----------------------------- MODULE Migrations -----------------------------
(***************************************************************************)
(* migrate() and Store.transaction() of src/src/store/index.ts: processes  *)
(* that start at the same time, of different releases, migrate one         *)
(* database.                                                               *)
(*                                                                         *)
(* Migrations are numbered in the order in which .sort() puts their file   *)
(* names.  The primary key of schema_migrations makes an INSERT wait for   *)
(* an open transaction that has inserted the same version.                 *)
(***************************************************************************)
EXTENDS Naturals, FiniteSets

CONSTANTS
    NMigrations,
    Process,
    Newest,        \* Newest[p]: the directory of p holds the files 1 .. Newest[p]
    MaxFaults      \* bound: failing statements, lost sessions and crashes

Migration == 1 .. NMigrations

ASSUME MigrationsAssumption == NMigrations \in Nat
ASSUME NewestAssumption == Newest \in [Process -> 0 .. NMigrations]
ASSUME FaultsAssumption == MaxFaults \in Nat

VARIABLES
    table,      \* the rows of schema_migrations
    effects,    \* history: how often the SQL of a migration took effect
    phase,      \* phase[p]: where p's migrate() is
    applied,    \* applied[p]: the versions it read
    file,       \* file[p]: the file the loop has reached
    tx,         \* tx[p]: what p's open transaction has done
    faults      \* counts what MaxFaults bounds

database == <<table, effects>>
worker   == <<phase, applied, file>>
vars     == <<database, worker, tx, faults>>

Nothing == [sql |-> FALSE, row |-> FALSE]

Init ==
    /\ table = {}
    /\ effects = [m \in Migration |-> 0]
    /\ phase = [p \in Process |-> "idle"]
    /\ applied = [p \in Process |-> {}]
    /\ file = [p \in Process |-> 1]
    /\ tx = [p \in Process |-> Nothing]
    /\ faults = 0

Fault == faults < MaxFaults /\ faults' = faults + 1

-----------------------------------------------------------------------------
(* migrate() creates the table if need be and reads what is applied; it is *)
(* called again when it threw, as the process is started again.            *)
ReadApplied(p) ==
    /\ phase[p] \in {"idle", "threw"}
    /\ phase' = [phase EXCEPT ![p] = "loop"]
    /\ applied' = [applied EXCEPT ![p] = table]
    /\ file' = [file EXCEPT ![p] = 1]
    /\ UNCHANGED <<database, tx, faults>>

IsApplied(p) == file[p] \in applied[p]

Skip(p) ==
    /\ phase[p] = "loop"
    /\ file[p] <= Newest[p]
    /\ IsApplied(p)
    /\ file' = [file EXCEPT ![p] = @ + 1]
    /\ UNCHANGED <<database, phase, applied, tx, faults>>

Return(p) ==
    /\ phase[p] = "loop"
    /\ file[p] > Newest[p]
    /\ phase' = [phase EXCEPT ![p] = "returned"]
    /\ UNCHANGED <<database, applied, file, tx, faults>>

(* The transaction of one file: BEGIN and the file's statements ...        *)
RunSql(p) ==
    /\ phase[p] = "loop"
    /\ file[p] <= Newest[p]
    /\ ~IsApplied(p)
    /\ phase' = [phase EXCEPT ![p] = "migrating"]
    /\ tx' = [tx EXCEPT ![p].sql = TRUE]
    /\ UNCHANGED <<database, applied, file, faults>>

(* ... the INSERT of its version ...                                       *)
HeldByOther(p) ==
    \E q \in Process \ {p} : tx[q].row /\ file[q] = file[p]

KeyIsFree(p) == ~HeldByOther(p) /\ file[p] \notin table

InsertVersion(p) ==
    /\ phase[p] = "migrating"
    /\ ~tx[p].row
    /\ KeyIsFree(p)
    /\ tx' = [tx EXCEPT ![p].row = TRUE]
    /\ UNCHANGED <<database, worker, faults>>

(* ... and COMMIT. *)
Apply(p) ==
    /\ table' = IF tx[p].row THEN table \cup {file[p]} ELSE table
    /\ effects' = [effects EXCEPT ![file[p]] = IF tx[p].sql THEN @ + 1 ELSE @]
    /\ tx' = [tx EXCEPT ![p] = Nothing]

Commit(p) ==
    /\ phase[p] = "migrating"
    /\ tx[p].row
    /\ Apply(p)
    /\ phase' = [phase EXCEPT ![p] = "loop"]
    /\ file' = [file EXCEPT ![p] = @ + 1]
    /\ UNCHANGED <<applied, faults>>

(* The catch branch of transaction(): ROLLBACK, and migrate() throws.      *)
NoTransaction(p) == Apply(p)                     \* [statements autocommit]
RollBack(p) ==
    /\ tx' = [tx EXCEPT ![p] = Nothing]
    /\ UNCHANGED database

Throws(p) ==
    /\ phase' = [phase EXCEPT ![p] = "threw"]
    /\ UNCHANGED file

(* The version was inserted by another process since it was read.          *)
UniqueViolation(p) ==
    /\ phase[p] = "migrating"
    /\ ~tx[p].row
    /\ ~HeldByOther(p)
    /\ ~KeyIsFree(p)
    /\ RollBack(p)
    /\ Throws(p)
    /\ UNCHANGED <<applied, faults>>

(* A statement fails, the CREATE TABLE and BEGIN included, or the session  *)
(* is lost, or the process dies.                                           *)
StatementFails(p) ==
    /\ phase[p] # "returned"
    /\ Fault
    /\ RollBack(p)
    /\ Throws(p)
    /\ UNCHANGED applied

(* COMMIT is executed but its answer is lost: reported as a failure.       *)
CommitReplyLost(p) ==
    /\ phase[p] = "migrating"
    /\ tx[p].row
    /\ Fault
    /\ Apply(p)
    /\ Throws(p)
    /\ UNCHANGED applied

Step(p) ==
    \/ ReadApplied(p) \/ Skip(p) \/ Return(p) \/ RunSql(p) \/ InsertVersion(p)
    \/ Commit(p) \/ UniqueViolation(p)

Next == \E p \in Process : Step(p) \/ StatementFails(p) \/ CommitReplyLost(p)

Spec == Init /\ [][Next]_vars

(* Statements are answered, and a process that threw is started again.     *)
Fairness == \A p \in Process : WF_vars(Step(p))

FairSpec == Spec /\ Fairness

-----------------------------------------------------------------------------
(* The variables have their types; only an open transaction has done       *)
(* something.                                                              *)
TypeOK ==
    /\ table \subseteq Migration
    /\ effects \in [Migration -> Nat]
    /\ phase \in [Process -> {"idle", "loop", "migrating", "returned", "threw"}]
    /\ applied \in [Process -> SUBSET Migration]
    /\ file \in [Process -> 1 .. NMigrations + 1]
    /\ tx \in [Process -> [sql : BOOLEAN, row : BOOLEAN]]
    /\ \A p \in Process : phase[p] # "migrating" => tx[p] = Nothing
    /\ faults \in 0 .. MaxFaults

(* A migration takes effect exactly as often as it is recorded, so once at *)
(* most, though every process decides by what it read at its start.        *)
EffectsOnce ==
    \A m \in Migration : effects[m] = IF m \in table THEN 1 ELSE 0

(* Migrations take effect in the order of their names, whatever fails and  *)
(* whichever releases run: what a process has read is never too new.       *)
InOrder ==
    /\ \A m \in table : \A k \in Migration : k < m => k \in table
    /\ \A p \in Process : applied[p] \subseteq table

(* migrate() returns only when all files of its directory are applied.     *)
ReturnedMeansDone ==
    \A p \in Process : phase[p] = "returned" => 1 .. Newest[p] \subseteq table

(* What a process has passed is applied; while it migrates a file, the     *)
(* file is its own, and nobody else has inserted the version it inserted.  *)
LoopTrue ==
    \A p \in Process :
        /\ phase[p] \in {"loop", "migrating"} =>
             \A k \in Migration : k < file[p] => k \in table
        /\ phase[p] = "migrating" => file[p] <= Newest[p] /\ tx[p].sql
        /\ tx[p].row =>
             /\ file[p] \notin table
             /\ \A q \in Process \ {p} : tx[q].row => file[q] # file[p]

(* Every process gets there, when it is started again after a failure: the *)
(* one that loses the race for a version throws, and then skips it.        *)
AllReturn == \A p \in Process : phase[p] # "idle" ~> phase[p] = "returned"
=============================================================================
