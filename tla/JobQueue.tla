------------------------------ MODULE JobQueue ------------------------------
(***************************************************************************)
(* JobQueue of src/src/queue/index.ts: processes poll a PostgreSQL table,  *)
(* claim due rows inside a transaction, run their handlers while the       *)
(* transaction is open and commit all outcomes of the batch together.      *)
(*                                                                         *)
(* The database is modelled by the committed row of each job and, for      *)
(* every open transaction, its own versions of the rows it has locked.     *)
(* When a session is lost the server rolls back at once, but the handler   *)
(* that was running goes on: a "zombie" batch.  An interval does not wait  *)
(* for the batch it started, so one process may have several batches, each *)
(* on its own pool client.                                                 *)
(*                                                                         *)
(* run_at is kept as `due'; a job stands for its own type.                 *)
(***************************************************************************)
EXTENDS Naturals, FiniteSets

CONSTANTS
    Job, Process,
    Client,        \* the clients of one process's pg pool
    MaxAttempts,   \* max_attempts of every job
    Limit,         \* LIMIT of the claiming query
    Reasonless,    \* sets of jobs whose handlers may reject with undefined
    Garbled,       \* sets of jobs whose payload may be one JSON.parse throws on
    MaxFaults,     \* bound: failed queries, lost sessions, crashes and stops
    MaxRuns        \* bound: executions of one job

ASSUME JobAssumption == Job # {} /\ IsFiniteSet(Job)
ASSUME AttemptsAssumption == MaxAttempts \in Nat \ {0}
ASSUME LimitAssumption == Limit \in Nat \ {0}
ASSUME ReasonlessAssumption == Reasonless \subseteq SUBSET Job
ASSUME GarbledAssumption == Garbled \subseteq SUBSET Job
ASSUME BoundsAssumption == MaxFaults \in Nat /\ MaxRuns \in Nat

Batch == Process \X Client
Terminal == {"done", "dead", "failed"}

VARIABLES
    jobs,        \* jobs[j]: the committed row
    tx,          \* tx[b]: the rows b has locked, as b sees them
    phase,       \* phase[b]: "idle", "connected", "open", "handling", "zombie"
    todo,        \* todo[b]: the claimed rows the loop has not reached
    cur,         \* cur[b]: the job being handled
    timers,      \* timers[p]: whether p polls
    handlers,    \* handlers[p]: the jobs p has registered a handler for
    reasonless,  \* the jobs whose handlers reject, if they do, with undefined
    garbled,     \* the jobs with a payload that cannot be parsed: a string, which
                 \* jsonb gives back as such (enqueue('t', 'hello'))
    faults,      \* counts what MaxFaults bounds
    ran, wins, losses  \* history: handler calls, successes, failed attempts

table   == <<jobs, tx>>
worker  == <<phase, todo, cur>>
given   == <<reasonless, garbled>>
process == <<timers, handlers, given>>
history == <<ran, wins, losses>>
vars == <<table, worker, process, faults, history>>

Row == [status : {"absent", "pending", "processing"} \cup Terminal,
        attempts : Nat, due : BOOLEAN]
NoRows == [j \in {} |-> [status |-> "absent", attempts |-> 0, due |-> FALSE]]

Locked == UNION {DOMAIN tx[b] : b \in Batch}

Init ==
    /\ jobs = [j \in Job |-> [status |-> "absent", attempts |-> 0, due |-> FALSE]]
    /\ tx = [b \in Batch |-> NoRows]
    /\ phase = [b \in Batch |-> "idle"]
    /\ todo = [b \in Batch |-> {}]
    /\ cur = [b \in Batch |-> CHOOSE j \in Job : TRUE]
    /\ timers = [p \in Process |-> FALSE]
    /\ handlers = [p \in Process |-> {}]
    /\ reasonless \in Reasonless
    /\ garbled \in Garbled
    /\ faults = 0
    /\ ran = [j \in Job |-> 0]
    /\ wins = {}
    /\ losses = [j \in Job |-> 0]

Fault == faults < MaxFaults /\ faults' = faults + 1

-----------------------------------------------------------------------------
(* enqueue(): with or without a delay. *)
Enqueue(j) ==
    /\ jobs[j].status = "absent"
    /\ \E due \in BOOLEAN :
         jobs' = [jobs EXCEPT ![j] = [status |-> "pending", attempts |-> 0, due |-> due]]
    /\ UNCHANGED <<tx, worker, process, faults, history>>

(* Time passes run_at. *)
BecomeDue(j) ==
    /\ jobs[j].status = "pending"
    /\ ~jobs[j].due
    /\ jobs' = [jobs EXCEPT ![j].due = TRUE]
    /\ UNCHANGED <<tx, worker, process, faults, history>>

(* register(), start() and stop().  stop() leaves running batches alone.   *)
Register(p, j) ==
    /\ handlers' = [handlers EXCEPT ![p] = @ \cup {j}]
    /\ UNCHANGED <<table, worker, timers, given, faults, history>>

Start(p) ==
    /\ timers' = [timers EXCEPT ![p] = TRUE]
    /\ UNCHANGED <<table, worker, handlers, given, faults, history>>

Stop(p) ==
    /\ timers[p]
    /\ Fault
    /\ timers' = [timers EXCEPT ![p] = FALSE]
    /\ UNCHANGED <<table, worker, handlers, given, history>>

-----------------------------------------------------------------------------
(* An interval fires: processBatch() gets a client and sends BEGIN.        *)
Poll(b) ==
    /\ timers[b[1]]
    /\ phase[b] = "idle"
    /\ phase' = [phase EXCEPT ![b] = "connected"]
    /\ UNCHANGED <<table, todo, cur, process, faults, history>>

(* The claiming UPDATE: at most Limit due pending rows that no other       *)
(* transaction has locked.                                                 *)
IgnoresLocks == {j \in Job : jobs[j].status = "pending" /\ jobs[j].due}
                                        \* [no FOR UPDATE SKIP LOCKED]
IgnoresStatus == {j \in Job : jobs[j].status # "absent" /\ jobs[j].due} \ Locked
                                        \* [no status='pending']
Claimable == {j \in Job : jobs[j].status = "pending" /\ jobs[j].due} \ Locked

Processing(S) == [j \in S |-> [jobs[j] EXCEPT !.status = "processing"]]

Autocommitted(S) == [j \in Job |-> IF j \in S THEN Processing(S)[j] ELSE jobs[j]]
                                        \* [no BEGIN]
TableAfterClaim(S) == jobs

Claim(b) ==
    /\ phase[b] = "connected"
    /\ \E S \in SUBSET Claimable :
         /\ Cardinality(S) =
              IF Cardinality(Claimable) <= Limit THEN Cardinality(Claimable) ELSE Limit
         /\ jobs' = TableAfterClaim(S)
         /\ tx' = [tx EXCEPT ![b] = Processing(S)]
         /\ todo' = [todo EXCEPT ![b] = S]
    /\ phase' = [phase EXCEPT ![b] = "open"]
    /\ UNCHANGED <<cur, process, faults, history>>

(* The outcomes the loop writes, all `... AND status='processing''.        *)
MarkedDone(r) == [r EXCEPT !.status = "done"]    \* [no handler: nothing to do]
MarkFailed(r) == [r EXCEPT !.status = "failed"]

MarkDone(r, n) == [r EXCEPT !.status = "done", !.attempts = n]

RetryUnguarded(r, n) ==                 \* [no AND status='processing']
    IF n >= MaxAttempts
      THEN [r EXCEPT !.status = "dead", !.attempts = n]
      ELSE [r EXCEPT !.status = "pending", !.attempts = n, !.due = FALSE]
RetryOrDie(r, n) ==
    IF r.status # "processing" THEN r
    ELSE IF n >= MaxAttempts
      THEN [r EXCEPT !.status = "dead", !.attempts = n]
      ELSE [r EXCEPT !.status = "pending", !.attempts = n, !.due = FALSE]

Won(j)  == wins' = wins \cup {j} /\ UNCHANGED <<ran, losses>>
Lost(j) == losses' = [losses EXCEPT ![j] = @ + 1] /\ UNCHANGED <<ran, wins>>

(* The loop reaches a row without a handler ...                            *)
NoHandler(b, j) ==
    /\ phase[b] = "open"
    /\ j \in todo[b] \ handlers[b[1]]
    /\ tx' = [tx EXCEPT ![b][j] = MarkFailed(@)]
    /\ todo' = [todo EXCEPT ![b] = @ \ {j}]
    /\ UNCHANGED <<jobs, phase, cur, process, faults, history>>

(* ... or parses the payload and calls the handler ...                     *)
CallHandler(b, j) ==
    /\ phase[b] = "open"
    /\ j \in (todo[b] \cap handlers[b[1]]) \ garbled
    /\ ran[j] < MaxRuns
    /\ ran' = [ran EXCEPT ![j] = @ + 1]
    /\ todo' = [todo EXCEPT ![b] = @ \ {j}]
    /\ cur' = [cur EXCEPT ![b] = j]
    /\ phase' = [phase EXCEPT ![b] = "handling"]
    /\ UNCHANGED <<table, process, faults, wins, losses>>

(* ... or parsePayload() throws before there is a call.  The catch branch  *)
(* counts an attempt all the same: the row is rescheduled or marked dead.  *)
PayloadThrows(b, j) ==
    /\ phase[b] = "open"
    /\ j \in todo[b] \cap handlers[b[1]] \cap garbled
    /\ Lost(j)
    /\ tx' = [tx EXCEPT ![b][j] = RetryOrDie(@, @.attempts + 1)]
    /\ todo' = [todo EXCEPT ![b] = @ \ {j}]
    /\ UNCHANGED <<jobs, phase, cur, process, faults>>

(* The handler fulfils and the row is marked done, or rejects and the row  *)
(* is rescheduled with backoff or marked dead.                             *)
HandlerFulfils(b) ==
    LET j == cur[b] IN
    /\ phase[b] = "handling"
    /\ Won(j)
    /\ tx' = [tx EXCEPT ![b][j] = MarkDone(@, @.attempts + 1)]
    /\ phase' = [phase EXCEPT ![b] = "open"]
    /\ UNCHANGED <<jobs, todo, cur, process, faults>>

HandlerRejects(b) ==
    LET j == cur[b] IN
    /\ phase[b] = "handling"
    /\ j \notin reasonless
    /\ Lost(j)
    /\ tx' = [tx EXCEPT ![b][j] = RetryOrDie(@, @.attempts + 1)]
    /\ phase' = [phase EXCEPT ![b] = "open"]
    /\ UNCHANGED <<jobs, todo, cur, process, faults>>

(* The row is marked done but the client's query times out (a setting of   *)
(* the pool): the catch branch runs after a success, on the same attempt.  *)
DoneReplyLate(b) ==
    LET j == cur[b]
        n == tx[b][j].attempts + 1
    IN
    /\ phase[b] = "handling"
    /\ Fault
    /\ Won(j)
    /\ tx' = [tx EXCEPT ![b][j] = RetryOrDie(MarkDone(@, n), n)]
    /\ phase' = [phase EXCEPT ![b] = "open"]
    /\ UNCHANGED <<jobs, todo, cur, process>>

(* COMMIT, after the last row.  If its reply is lost the ROLLBACK that     *)
(* follows finds no transaction: the table is as after a COMMIT.           *)
Commit(b) ==
    /\ phase[b] = "open"
    /\ todo[b] = {}
    /\ jobs' = [j \in Job |-> IF j \in DOMAIN tx[b] THEN tx[b][j] ELSE jobs[j]]
    /\ tx' = [tx EXCEPT ![b] = NoRows]
    /\ phase' = [phase EXCEPT ![b] = "idle"]
    /\ UNCHANGED <<todo, cur, process, faults, history>>

-----------------------------------------------------------------------------
(* ROLLBACK and release of the client: the outcomes of the rows handled    *)
(* before are lost with the rest of the batch.                             *)
RollBack(b) ==
    /\ tx' = [tx EXCEPT ![b] = NoRows]
    /\ todo' = [todo EXCEPT ![b] = {}]
    /\ phase' = [phase EXCEPT ![b] = "idle"]
    /\ UNCHANGED jobs

(* A query other than the one that follows a handler fails: a claim, the   *)
(* outcome of a row whose handler was not called, or COMMIT, before it is  *)
(* executed.                                                               *)
QueryFails(b) ==
    /\ phase[b] \in {"connected", "open"}
    /\ Fault
    /\ RollBack(b)
    /\ UNCHANGED <<cur, process, history>>

(* The query that follows a handler fails; the catch branch's own query    *)
(* then fails too, the transaction being aborted.                          *)
OutcomeQueryFails(b) ==
    /\ phase[b] = "handling"
    /\ Fault
    /\ Won(cur[b]) \/ Lost(cur[b])
    /\ RollBack(b)
    /\ UNCHANGED <<cur, process>>

(* The handler rejects with undefined: `err.message' throws in the catch   *)
(* branch.                                                                 *)
HandlerRejectsWithoutReason(b) ==
    /\ phase[b] = "handling"
    /\ cur[b] \in reasonless
    /\ Lost(cur[b])
    /\ RollBack(b)
    /\ UNCHANGED <<cur, process, faults>>

(* The session is lost under a running handler ... *)
SessionLost(b) ==
    /\ phase[b] = "handling"
    /\ Fault
    /\ tx' = [tx EXCEPT ![b] = NoRows]
    /\ todo' = [todo EXCEPT ![b] = {}]
    /\ phase' = [phase EXCEPT ![b] = "zombie"]
    /\ UNCHANGED <<jobs, cur, process, history>>

(* ... which settles later; every query, ROLLBACK included, then throws.   *)
ZombieEnds(b) ==
    /\ phase[b] = "zombie"
    /\ Won(cur[b]) \/ Lost(cur[b])
    /\ phase' = [phase EXCEPT ![b] = "idle"]
    /\ UNCHANGED <<table, todo, cur, process, faults>>

(* The process dies: its sessions are rolled back, its handlers stop. *)
Crash(p) ==
    /\ Fault
    /\ tx' = [b \in Batch |-> IF b[1] = p THEN NoRows ELSE tx[b]]
    /\ todo' = [b \in Batch |-> IF b[1] = p THEN {} ELSE todo[b]]
    /\ phase' = [b \in Batch |-> IF b[1] = p THEN "idle" ELSE phase[b]]
    /\ timers' = [timers EXCEPT ![p] = FALSE]
    /\ handlers' = [handlers EXCEPT ![p] = {}]
    /\ UNCHANGED <<jobs, cur, given, history>>

Settle(b) == HandlerFulfils(b) \/ HandlerRejects(b) \/ HandlerRejectsWithoutReason(b)

Next ==
    \/ \E j \in Job : Enqueue(j) \/ BecomeDue(j)
    \/ \E p \in Process : Start(p) \/ Stop(p) \/ Crash(p) \/ \E j \in Job : Register(p, j)
    \/ \E b \in Batch :
         \/ Poll(b) \/ Claim(b) \/ Settle(b) \/ Commit(b)
         \/ \E j \in Job : NoHandler(b, j) \/ CallHandler(b, j) \/ PayloadThrows(b, j)
         \/ DoneReplyLate(b) \/ QueryFails(b) \/ OutcomeQueryFails(b)
         \/ SessionLost(b) \/ ZombieEnds(b)

Spec == Init /\ [][Next]_vars

(* Time passes, processes are (re)started and poll, queries are answered   *)
(* and handlers settle.                                                    *)
Fairness ==
    /\ \A j \in Job : WF_vars(BecomeDue(j))
    /\ \A p \in Process : WF_vars(~timers[p] /\ Start(p))
    /\ \A b \in Batch :
         /\ WF_vars(Poll(b)) /\ WF_vars(Claim(b)) /\ WF_vars(Commit(b))
         /\ WF_vars(\E j \in Job : NoHandler(b, j) \/ CallHandler(b, j)
                                     \/ PayloadThrows(b, j))
         /\ WF_vars(Settle(b)) /\ WF_vars(ZombieEnds(b))

FairSpec == Spec /\ Fairness

-----------------------------------------------------------------------------
(* The variables have their types; only open transactions hold locks.      *)
TypeOK ==
    /\ jobs \in [Job -> Row]
    /\ tx = [b \in Batch |-> tx[b]]
    /\ todo \in [Batch -> SUBSET Job]
    /\ \A b \in Batch :
         /\ tx[b] \in [DOMAIN tx[b] -> Row]
         /\ todo[b] \subseteq DOMAIN tx[b] /\ DOMAIN tx[b] \subseteq Job
         /\ phase[b] \in {"idle", "connected", "zombie"} => DOMAIN tx[b] = {}
    /\ phase \in [Batch -> {"idle", "connected", "open", "handling", "zombie"}]
    /\ cur \in [Batch -> Job]
    /\ timers \in [Process -> BOOLEAN]
    /\ handlers \in [Process -> SUBSET Job]
    /\ reasonless \in Reasonless /\ garbled \in Garbled
    /\ faults \in 0 .. MaxFaults
    /\ ran \in [Job -> 0 .. MaxRuns]
    /\ wins \subseteq Job
    /\ losses \in [Job -> Nat]

(* Whatever crashes, rolls back or is lost, no row is left in `processing'. *)
NeverStranded == \A j \in Job : jobs[j].status # "processing"

(* One row is claimed by one open transaction, and its handler runs twice  *)
(* at the same time only when a session was lost under the first run.      *)
OneOwner ==
    \A b, d \in Batch : b # d =>
        /\ DOMAIN tx[b] \cap DOMAIN tx[d] = {}
        /\ phase[b] = "handling" /\ phase[d] = "handling" => cur[b] # cur[d]

(* A row that says `done' was handled with success; one that counts n      *)
(* attempts and is not done has failed n times, its handler rejecting or   *)
(* its payload not being parsed before a call; `dead' means that the       *)
(* attempts are used up, `pending' that they are not.                      *)
OutcomesAreTrue ==
    \A j \in Job :
        /\ jobs[j].status = "done" => j \in wins
        /\ jobs[j].status \in {"pending", "dead"} => losses[j] >= jobs[j].attempts
        /\ jobs[j].status = "dead" => jobs[j].attempts = MaxAttempts
        /\ jobs[j].status = "pending" => jobs[j].attempts < MaxAttempts

(* A job whose payload cannot be parsed uses up its attempts unexecuted:   *)
(* no batch, not even one that lost its session, runs its handler, and it  *)
(* is never taken for a success.                                           *)
GarbledNeverRun ==
    /\ \A b \in Batch : phase[b] \in {"handling", "zombie"} => cur[b] \notin garbled
    /\ \A j \in garbled : ran[j] = 0 /\ j \notin wins

(* A job that has ended is never executed or changed again.                *)
EndsOnce ==
    [][\A j \in Job : jobs[j].status \in Terminal =>
          jobs'[j] = jobs[j] /\ ran'[j] = ran[j]]_vars

(* A job is executed more often than max_attempts allows only when its     *)
(* batch did not commit: by a failed query, a lost session, a crash or a   *)
(* rejection with undefined, each of which costs a job one execution.      *)
ThrownOut == UNION {{k} \X (1 .. losses[k]) : k \in reasonless \ garbled}
RunsBounded ==
    \A j \in Job : ran[j] <= MaxAttempts + faults + Cardinality(ThrownOut)

(* The queue implements the lifecycle it promises.                         *)
Lifecycle == INSTANCE JobLifecycle
               WITH status <- [j \in Job |-> jobs[j].status],
                    attempts <- [j \in Job |-> jobs[j].attempts]
Implements == Lifecycle!Spec

(* Inside an open batch: a locked row is still due and pending to others;  *)
(* until it is handled the batch changes no more of it than its status,    *)
(* and then it says what may be reported of it (JobLifecycle's May).       *)
Unhandled(b) == todo[b] \cup (IF phase[b] = "handling" THEN {cur[b]} ELSE {})

BatchesAreTrue ==
    \A b \in Batch :
        /\ phase[b] = "handling" => cur[b] \in DOMAIN tx[b] \ todo[b]
        /\ \A j \in DOMAIN tx[b] :
             /\ jobs[j].status = "pending" /\ jobs[j].due
             /\ IF j \in Unhandled(b)
                  THEN tx[b][j] = [jobs[j] EXCEPT !.status = "processing"]
                  ELSE Lifecycle!May(j, tx[b][j].status, tx[b][j].attempts)

(* Every execution of a job is counted by its row, is under way, or was    *)
(* thrown out with its batch.                                              *)
Counted(j, n) == ran[j] <= n + faults + Cardinality(ThrownOut)

EveryRunCounted ==
    \A j \in Job :
        /\ jobs[j].attempts <= MaxAttempts
        /\ jobs[j].status = "absent" => jobs[j].attempts = 0
        /\ j \notin Locked => Counted(j, jobs[j].attempts)
        /\ \A b \in Batch : j \in DOMAIN tx[b] =>
             Counted(j, tx[b][j].attempts
                          + IF j \in Unhandled(b) \ todo[b] THEN 1 ELSE 0)

(* The queue's invariant, inductive by its last three conjuncts.           *)
QueueSafety ==
    /\ TypeOK /\ NeverStranded /\ OneOwner /\ OutcomesAreTrue /\ RunsBounded
    /\ GarbledNeverRun /\ BatchesAreTrue /\ EveryRunCounted

(* After the last fault every job comes to an end: it is not forgotten by  *)
(* a rollback, a stop or a crash, nor starved by other jobs.  (A handler   *)
(* that rejects with undefined keeps its job, and those that share its     *)
(* batches, from ending: see the run queue_reasonless.)                    *)
EveryJobEnds ==
    \A j \in Job :
        reasonless = {} /\ jobs[j].status = "pending" ~> jobs[j].status \in Terminal

(* "job queue with retry + dead-letter" (README.md:39): without faults, a  *)
(* job is not tried again once max_attempts attempts have failed.          *)
DeadLetters == \A j \in Job : losses[j] <= MaxAttempts
=============================================================================
