----------------------------- MODULE MCService -----------------------------
(***************************************************************************)
(* TLC instance of what surrounds the work of a service: Migrations,       *)
(* Config, FeatureFlags, Scheduler, Http, Validator, Retry, Health and     *)
(* Graceful.  They share nothing, so a behaviour of this module is one of  *)
(* one of them, its `part', while the others stay as they are initially.   *)
(***************************************************************************)
EXTENDS Migrations, TLC

CONSTANTS
    p1, p2, p3,
    Checkers, CheckerName, HealthCall,           \* Health
    Hooks, Manual, Signals,                      \* Graceful
    Jobs, JobStarts, JobOverlap,                 \* Scheduler
    Role, Required, TtlSeconds, TimeoutMs, HttpTime,           \* Http
    MaxAttempts, InitialMs, Multiplier, MaxMs, TimerLimit,     \* Retry
    NFields,                                     \* Config
    Name, MaxLen, MinLength,                     \* Validator
    FlagKey, e1, e2, Entity, HashBucket, Percentage, EnvFlags, Undefined       \* FeatureFlags

VARIABLES
    part,
    registered, snapshot, settled, report,
    hooks, listening, run, todo, hookSnapshot, errors, hook, timedOut, process,
    once, pending, timers, loop, starts, active, stopped, dispatched,
    now, token, claims, pc, admitted, status, wire, ended, timer, due, finish,
    logged, uncaught,
    opts, retryPc, attempt, last, result, outcomes, retryHooks, slept,
    meta, env, next, value, configErrors, outcome,
    flag, lastIndex, fieldErrors, invalid,
    flags

healthVars    == <<registered, snapshot, settled, report>>
gracefulVars  == <<hooks, listening, run, todo, hookSnapshot, errors, hook,
                   timedOut, process>>
schedVars     == <<once, pending, timers, loop, starts, active, stopped, dispatched>>
httpVars      == <<now, token, claims, pc, admitted, status, wire, ended, timer, due,
                   finish, logged, uncaught>>
retryVars     == <<opts, retryPc, attempt, last, result, outcomes, retryHooks, slept>>
configVars    == <<meta, env, next, value, configErrors, outcome>>
validatorVars == <<flag, lastIndex, fieldErrors, invalid>>
settingVars == <<configVars, validatorVars, flags>>
requestVars == <<httpVars, retryVars, schedVars>>
processVars == <<vars, healthVars, gracefulVars>>
allVars == <<part, settingVars, requestVars, processVars>>

(* p1 is of an older release than the others. *)
NewestOf == [p \in Process |-> IF p = p1 THEN NMigrations - 1 ELSE NMigrations]

(* The third checker has the name of the first. *)
NameOf == <<1, 2, 1>>

H == INSTANCE Health
       WITH NCheckers <- Checkers, Name <- CheckerName, Call <- HealthCall

G == INSTANCE Graceful
       WITH MaxHooks <- Hooks, registered <- hooks, snapshot <- hookSnapshot

J == INSTANCE Scheduler
       WITH MaxJobs <- Jobs, MaxStarts <- JobStarts, MaxOverlap <- JobOverlap

W == INSTANCE Http WITH MaxTime <- HttpTime

R == INSTANCE Retry WITH pc <- retryPc, hooks <- retryHooks

C == INSTANCE Config WITH errors <- configErrors

V == INSTANCE Validator
       WITH Field <- Name, Limit <- MinLength, errors <- fieldErrors

(* An entity in the first and one in the last bucket. *)
BucketOf == [k \in FlagKey |-> e1 :> 0 @@ e2 :> 99]

F == INSTANCE FeatureFlags
       WITH Key <- FlagKey, EnvKeys <- EnvFlags, Bucket <- HashBucket

ASSUME HealthAssumption == H!CheckersAssumption /\ H!NameAssumption
ASSUME GracefulAssumption == G!HooksAssumption /\ G!CallsAssumption
ASSUME SchedulerAssumption == J!JobsAssumption
ASSUME CallAssumption == W!RequestAssumption /\ R!RetryAssumption
ASSUME SettingAssumption ==
    C!FieldsAssumption /\ V!LimitAssumption /\ F!BucketAssumption /\ F!FlagAssumption

AllInit ==
    /\ part \in {"migrations", "health", "graceful", "scheduler", "http", "retry", "config",
                "validator", "flags"}
    /\ Init /\ H!Init /\ G!Init /\ J!Init /\ W!Init /\ R!Init
    /\ C!Init /\ V!Init /\ F!Init

AllNext ==
    /\ part' = part
    /\ \/ /\ part = "migrations" /\ Next
          /\ UNCHANGED <<healthVars, gracefulVars, settingVars, requestVars>>
       \/ /\ part = "config" /\ C!Next
          /\ UNCHANGED <<validatorVars, flags, requestVars, processVars>>
       \/ /\ part = "flags" /\ F!Next
          /\ UNCHANGED <<configVars, validatorVars, requestVars, processVars>>
       \/ /\ part = "scheduler" /\ J!Next
          /\ UNCHANGED <<httpVars, retryVars, settingVars, processVars>>
       \/ /\ part = "http" /\ W!Next
          /\ UNCHANGED <<retryVars, schedVars, settingVars, processVars>>
       \/ /\ part = "validator" /\ V!Next
          /\ UNCHANGED <<configVars, flags, requestVars, processVars>>
       \/ /\ part = "retry" /\ R!Next
          /\ UNCHANGED <<httpVars, schedVars, settingVars, processVars>>
       \/ /\ part = "health" /\ H!Next
          /\ UNCHANGED <<vars, gracefulVars, settingVars, requestVars>>
       \/ /\ part = "graceful" /\ G!Next
          /\ UNCHANGED <<vars, healthVars, settingVars, requestVars>>

(* Fairness of the modules; `part' never changes, so that it may stand in  *)
(* the actions, where TLC checks it faster than an implication.            *)
AllFairness ==
    /\ \A p \in Process : WF_vars(part = "migrations" /\ Step(p))
    /\ \A r \in G!Run :
          WF_gracefulVars(part = "graceful" /\ \E h \in G!Hook : G!HookTimesOut(r, h))
    /\ WF_schedVars(part = "scheduler" /\ (J!ScheduleOnce \/ J!ScheduleEvery \/ J!LoopEnds))
    /\ \A t \in J!Timer : WF_schedVars(part = "scheduler" /\ J!Fire(t))
    /\ \A e \in J!Entry : WF_schedVars(part = "scheduler" /\ J!Settle(e))
    /\ WF_httpVars(part = "http" /\ W!Timeout)
    /\ WF_httpVars(part = "http" /\ W!Tick)
    /\ WF_httpVars(part = "http" /\ W!Finish)

AllSpec == AllInit /\ [][AllNext]_allVars /\ AllFairness

-----------------------------------------------------------------------------
(* The properties, stated and explained in the modules: what migrations,   *)
(* health checks, timers and hooks did is as they report it.               *)
ServiceSafety ==
    /\ TypeOK /\ InOrder /\ ReturnedMeansDone /\ LoopTrue
    /\ H!TypeOK /\ H!TrueOnlyIfHealthy /\ H!FalseOnlyIfUnhealthy
    /\ J!TypeOK /\ J!OnceForEachStart /\ J!LoopAhead /\ J!StoppedIsIdle
    /\ G!TypeOK /\ G!LifoInEachRun /\ G!ExitCodeTrue /\ G!LoopTrue /\ G!ExitIsTold

(* What the settings, the rules and the flags say is what was put there.   *)
SettingsTrue ==
    /\ C!TypeOK /\ V!TypeOK /\ F!TypeOK
    /\ C!AllOrNothing /\ V!VerdictTrue /\ F!AnswersAgree
    /\ C!LoopTrue /\ V!Memoryless

RolloutKept == F!RolloutKept

(* A request is let in, answered and logged as it should be; a call that is *)
(* retried settles with what happened.                                     *)
CallsTrue ==
    /\ W!TypeOK /\ W!OneAnswer /\ W!GuardsHold
    /\ R!TypeOK /\ R!ResultTold
    /\ W!StageTrue /\ R!LoopTrue

WaitsGrow == R!SleptTold /\ R!BackoffGrows

QuietAfterStop == J!QuietAfterStop

(* Every process gets its migrations done, every job is run, every request *)
(* answered, and every shutdown ends.                                      *)
AllEnd ==
    /\ AllReturn /\ J!JobsRun /\ G!ShutdownEnds
    /\ W!EveryRequestAnswered /\ W!TimerEnds
=============================================================================
