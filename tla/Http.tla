-------------------------------- MODULE Http --------------------------------
(***************************************************************************)
(* One HTTP request on its way through the middlewares of                  *)
(* src/src/middleware/index.ts (request id, logging, timeout, recovery)    *)
(* and the guards of src/src/auth/index.ts (JwtGuard, then a roles guard)  *)
(* to a handler and back.  Requests share nothing.  Express and NestJS are *)
(* external: what res.status(), json() and end() do, when `finish' is      *)
(* emitted, and the exception layer that answers for what a guard or the   *)
(* handler throws.                                                         *)
(***************************************************************************)
EXTENDS Integers

CONSTANTS
    Role,        \* roles a token may carry
    Required,    \* the roles that the roles guard asks for: at least one
    TtlSeconds,  \* values of ttlSeconds for the token
    TimeoutMs,   \* of timeoutMiddleware(), in ticks; a tick is a second
    MaxTime      \* bound on the clock

RequestAssumption ==
    /\ Required \subseteq Role /\ Required # {}
    /\ TtlSeconds \subseteq Int /\ TimeoutMs \in Nat /\ MaxTime \in Nat

VARIABLES
    now,       \* Date.now()
    token,     \* what the Authorization header holds
    claims,    \* request['gkit:claims']
    pc,        \* "new", "jwt", "roles", "running", "streaming", "over"
    admitted,  \* history: the time at which JwtGuard let the request in
    status,    \* res.statusCode
    wire,      \* the status that was sent, 0 while headersSent is false
    ended,     \* res.end() was called
    timer,     \* "none", "armed", "cleared", "fired"
    due,       \* when the timer is due
    finish,    \* `finish': "no", "emitted"; "never" once the client has gone
    logged,    \* the status that LoggingMiddleware logged, 0 before
    uncaught   \* something was thrown where nobody catches it

vars == <<now, token, claims, pc, admitted, status, wire, ended, timer, due,
          finish, logged, uncaught>>

None == [kind |-> "none", exp |-> 0, roles |-> {}]

(* No bearer token, one that cannot be verified, or one that issueToken()  *)
(* made at time 0.                                                         *)
Tokens ==
    {None, [None EXCEPT !.kind = "bad"]}
      \cup [kind : {"jwt"}, exp : TtlSeconds, roles : SUBSET Role]

Init ==
    /\ now = 0 /\ token = None /\ claims = None
    /\ pc = "new" /\ admitted = 0
    /\ status = 200 /\ wire = 0 /\ ended = FALSE
    /\ timer = "none" /\ due = 0
    /\ finish = "no" /\ logged = 0 /\ uncaught = FALSE

-----------------------------------------------------------------------------
request  == <<token, claims, pc, admitted>>
response == <<status, wire, ended>>
rest     == <<now, timer, due, finish, logged, uncaught>>

headersSent == wire # 0

(* res.status(s).json(): the status is set first; json() throws when the   *)
(* headers are out.                                                        *)
Respond(s) ==
    /\ status' = s
    /\ IF headersSent THEN UNCHANGED <<wire, ended>>
       ELSE wire' = s /\ ended' = TRUE

(* The exception layer: it answers, or only ends what was begun.           *)
Exception(s) ==
    IF headersSent THEN ended' = TRUE /\ UNCHANGED <<status, wire>>
    ELSE Respond(s)

(* The middlewares call each other in one go: the timer is set before      *)
(* whatever comes after is called.  MaxTime leaves it room to fire.        *)
Arrive ==
    /\ pc = "new" /\ now + TimeoutMs <= MaxTime
    /\ token' \in Tokens
    /\ timer' = "armed" /\ due' = now + TimeoutMs

(* use() of RequestId, Logging, the timeout and Recovery, up to the guards, *)
(* among which JwtGuard may have been forgotten.                            *)
Enter ==
    /\ Arrive
    /\ pc' \in {"jwt", "roles"}
    /\ UNCHANGED <<now, claims, admitted, response, finish, logged, uncaught>>

(* RecoveryMiddleware's catch: next() has thrown, perhaps after something  *)
(* downstream had begun an answer, which then stays as it is.              *)
Recover ==
    /\ Arrive
    /\ pc' = "over"
    /\ \/ Respond(500)
       \/ wire' = 200 /\ UNCHANGED <<status, ended>>
    /\ UNCHANGED <<now, claims, admitted, finish, logged, uncaught>>

(* jwt.verify(): expired from the second exp on.                           *)
Expired == now >= token.exp

Refuse(s) ==
    /\ pc' = "over"
    /\ Exception(s)
    /\ UNCHANGED <<token, claims, admitted, rest>>

(* JwtGuard.canActivate(): no token, a bad one, an expired one, or claims. *)
JwtRefuses ==
    /\ pc = "jwt"
    /\ \/ token.kind # "jwt" /\ Refuse(401)
       \/ token.kind = "jwt" /\ Expired /\ Refuse(403)

JwtAdmits ==
    /\ pc = "jwt"
    /\ token.kind = "jwt" /\ ~Expired
    /\ claims' = token /\ admitted' = now
    /\ pc' = "roles"
    /\ UNCHANGED <<token, response, rest>>

(* requireRoles() and RolesGuard: at least one of the roles asked for.     *)
HasRole == claims # None /\ Required \cap claims.roles # {}

RolesRefuse ==
    /\ pc = "roles" /\ ~HasRole
    /\ Refuse(403)

RolesAdmit ==
    /\ pc = "roles" /\ HasRole
    /\ pc' = "running"
    /\ UNCHANGED <<token, claims, admitted, response, rest>>

(* The handler, external: it answers, begins an answer and ends it later,  *)
(* or throws.  What a late answer throws is caught by the exception layer. *)
HandlerAnswers ==
    /\ pc = "running"
    /\ Respond(200)
    /\ pc' = "over"
    /\ UNCHANGED <<token, claims, admitted, rest>>

HandlerStreams ==
    /\ pc = "running" /\ ~headersSent
    /\ wire' = 200 /\ pc' = "streaming"
    /\ UNCHANGED <<token, claims, admitted, status, ended, rest>>

HandlerEnds ==
    /\ pc = "streaming"
    /\ ended' = TRUE /\ pc' = "over"
    /\ UNCHANGED <<token, claims, admitted, status, wire, rest>>

HandlerThrows ==
    /\ pc \in {"running", "streaming"}
    /\ Refuse(500)

-----------------------------------------------------------------------------
TooLate == FALSE                            \* [does not look at headersSent]
Answered == headersSent

(* The callback of timeoutMiddleware()'s timer.  Nobody would catch what   *)
(* json() threw here.                                                      *)
Timeout ==
    /\ timer = "armed" /\ now >= due
    /\ timer' = "fired"
    /\ IF Answered THEN UNCHANGED <<response, uncaught>>
       ELSE Respond(503) /\ uncaught' = headersSent
    /\ UNCHANGED <<request, now, due, finish, logged>>

(* `finish' is emitted when all has been handed to the socket: the request *)
(* is logged and the timer cleared.                                        *)
Finish ==
    /\ ended /\ finish = "no"
    /\ finish' = "emitted"
    /\ logged' = status
    /\ timer' = IF timer = "armed" THEN "cleared" ELSE timer
    /\ UNCHANGED <<request, response, now, due, uncaught>>

(* External: the client goes away before all was sent.                     *)
Abort ==
    /\ pc # "new" /\ finish = "no"
    /\ finish' = "never"
    /\ UNCHANGED <<request, response, now, timer, due, logged, uncaught>>

Tick ==
    /\ now < MaxTime
    /\ now' = now + 1
    /\ UNCHANGED <<request, response, timer, due, finish, logged, uncaught>>

Next ==
    \/ Enter \/ Recover
    \/ JwtRefuses \/ JwtAdmits \/ RolesRefuse \/ RolesAdmit
    \/ HandlerAnswers \/ HandlerStreams \/ HandlerEnds \/ HandlerThrows
    \/ Timeout \/ Finish \/ Abort \/ Tick

Spec == Init /\ [][Next]_vars

(* Timers fire and time goes on; the handler owes nothing, not even an end. *)
Fairness == WF_vars(Timeout) /\ WF_vars(Tick) /\ WF_vars(Finish)

-----------------------------------------------------------------------------
(* Type correctness, with what `kind', the timer and `finish' range over.  *)
TypeOK ==
    /\ now \in 0 .. MaxTime /\ token \in Tokens /\ claims \in {None, token}
    /\ pc \in {"new", "jwt", "roles", "running", "streaming", "over"}
    /\ admitted \in 0 .. MaxTime
    /\ status \in {200, 401, 403, 500, 503} /\ wire \in {0, 200, 401, 403, 500, 503}
    /\ ended \in BOOLEAN /\ uncaught \in BOOLEAN
    /\ timer \in {"none", "armed", "cleared", "fired"} /\ due \in 0 .. MaxTime
    /\ finish \in {"no", "emitted", "never"}
    /\ logged \in {0, 200, 401, 403, 500, 503}

(* How far the request is, and what it has by then: a timer from the       *)
(* first, claims of its own good token once JwtGuard let it in, a role     *)
(* once the handler runs, and, until the handler answers, no answer but a  *)
(* 503.  What is sent has the status that was set, but for the late        *)
(* handler's, and `finish' comes when it was ended.                        *)
StageTrue ==
    /\ pc = "new" => claims = None /\ wire = 0 /\ timer = "none"
    /\ timer = "none" => pc = "new"
    /\ claims # None => claims = token /\ token.kind = "jwt" /\ admitted < token.exp
    /\ pc = "jwt" => claims = None
    /\ pc \in {"running", "streaming"} => HasRole
    /\ pc \in {"jwt", "roles", "running"} => wire \in {0, 503}
    /\ pc = "streaming" => wire = 200
    /\ wire = 0 => status = 200 /\ ~ended
    /\ wire # 0 => status = wire \/ (status = 200 /\ wire = 503)
    /\ (logged # 0 \/ finish = "emitted") => ended

(* The timeout never interferes with an answer, neither one that is being  *)
(* streamed nor one that is on its way to the socket: nothing is thrown in *)
(* its callback, and the log tells what the client got, with one exception *)
(* that the code allows: a handler that answers after the 503, but before  *)
(* `finish', has its own status logged.                                    *)
OneAnswer ==
    /\ ~uncaught
    /\ logged \in {0, wire} \/ (logged = 200 /\ wire = 503)

(* The handler is reached with claims only, of a token that was good when  *)
(* JwtGuard looked at it, however late it runs, and that has a role asked  *)
(* for, also where JwtGuard was forgotten; every refusal that was sent had *)
(* its reason.                                                             *)
GuardsHold ==
    /\ pc \in {"running", "streaming"} =>
          /\ claims = token /\ token.kind = "jwt" /\ admitted < token.exp
          /\ Required \cap token.roles # {}
    /\ wire = 401 => token.kind # "jwt"
    /\ wire = 403 =>
          claims = None \/ token.exp <= now \/ Required \cap token.roles = {}

(* Every request is answered, whatever the handler does or does not do.    *)
EveryRequestAnswered == pc # "new" ~> headersSent

(* The timer does not outlive the request for ever.                        *)
TimerEnds == timer = "armed" ~> timer # "armed"
=============================================================================
