---------------------------- MODULE JobLifecycle ----------------------------
(***************************************************************************)
(* What a JobQueue promises about each job, with no workers, sessions or   *)
(* transactions: a job is `done' only after a successful execution and     *)
(* `dead' only after MaxAttempts failed attempts; a worker that has no     *)
(* handler may make it `failed' without executing it; an attempt that it   *)
(* counts has been made; and a job that has ended stays as it is.          *)
(* Several jobs may change at once: a worker commits a batch.              *)
(***************************************************************************)
EXTENDS Naturals

CONSTANTS Job, MaxAttempts

VARIABLES
    status,     \* status[j]: as others see it
    attempts,   \* attempts[j]: as others see it
    wins,       \* jobs whose handler has fulfilled
    losses      \* losses[j]: failed attempts: the handler of j
                \* rejected, or its payload could not be parsed for a call

vars == <<status, attempts, wins, losses>>

Terminal == {"done", "dead", "failed"}

Init ==
    /\ status = [j \in Job |-> "absent"]
    /\ attempts = [j \in Job |-> 0]
    /\ wins = {}
    /\ losses = [j \in Job |-> 0]

Enqueue(j) ==
    /\ status[j] = "absent"
    /\ status' = [status EXCEPT ![j] = "pending"]
    /\ UNCHANGED <<attempts, wins, losses>>

(* An attempt ends; nobody else sees anything of it yet. *)
Win(j) ==
    /\ wins' = wins \cup {j}
    /\ UNCHANGED <<status, attempts, losses>>

Lose(j) ==
    /\ losses' = [losses EXCEPT ![j] = @ + 1]
    /\ UNCHANGED <<status, attempts, wins>>

(* What may become of a pending job: s is its next status, n its attempts. *)
May(j, s, n) ==
    \/ s = "failed" /\ n = attempts[j]
    \/ s = "done" /\ n = attempts[j] + 1 /\ j \in wins
    \/ s = "dead" /\ n = attempts[j] + 1 /\ n >= MaxAttempts /\ losses[j] >= n
    \/ s = "pending" /\ n = attempts[j] + 1 /\ n < MaxAttempts /\ losses[j] >= n

Report ==
    /\ \A j \in Job :
         \/ status'[j] = status[j] /\ attempts'[j] = attempts[j]
         \/ status[j] = "pending" /\ May(j, status'[j], attempts'[j])
    /\ UNCHANGED <<wins, losses>>

Next ==
    \/ \E j \in Job : Enqueue(j) \/ Win(j) \/ Lose(j)
    \/ Report

Spec == Init /\ [][Next]_vars
=============================================================================
