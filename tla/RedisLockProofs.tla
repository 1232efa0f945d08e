-------------------------- MODULE RedisLockProofs --------------------------
(***************************************************************************)
(* Safety of RedisLock for every set of calls, bare or not, every time to  *)
(* live and minimum interval, every number of retries, and every bound on  *)
(* faults and renewals under way.                                          *)
(***************************************************************************)
EXTENDS RedisLock, FiniteSetTheorems, TLAPS

(* The renewal interval is positive, and shorter than the time to live     *)
(* when the minimum interval is.                                           *)
LEMMA Interval ==
  /\ RenewInterval \in Nat /\ RenewInterval > 0 /\ TtlMs \in Nat /\ TtlMs > 0
  /\ MinInterval < TtlMs => RenewInterval < TtlMs
  /\ 3 * MinInterval <= TtlMs => 3 * RenewInterval <= TtlMs
<1> DEFINE third == TtlMs \div 3
<1>1. /\ third \in Nat /\ 3 * third <= TtlMs /\ TtlMs \in Nat \ {0}
      /\ MinInterval \in Nat \ {0}
  BY TtlAssumption
<1>2. RenewInterval = IF third < MinInterval THEN MinInterval ELSE third
  BY DEF RenewInterval, AtLeastMin
<1> HIDE DEF third
<1> QED BY <1>1, <1>2

(* No two calls, and no two attempts of one, have the same token.          *)
LEMMA TokensDiffer ==
  /\ \A c, d \in Call : Token(c) = Token(d) => c = d
  /\ \A c \in Call : Token(c) # Nobody
  BY DEF Token, Nobody

-----------------------------------------------------------------------------
(* The inductive invariant: LockSafety without what follows from the rest. *)
LockInv == TypeOK /\ ReturnedHoldsNothing /\ HeldOrLapsed /\ InTime

LEMMA LockInvSuffices == LockInv => LockSafety
<1> SUFFICES ASSUME LockInv PROVE LockSafety
  OBVIOUS
<1>1. ExclusionUnlessLapsed
  <2> DEFINE S == Running \ lapsed
  <2>1. \A c, d \in S : c = d
    BY TokensDiffer DEF LockInv, HeldOrLapsed, CountsOnIt, Owns, Running
  <2> HIDE DEF S
  <2>2. CASE S = {}
    BY <2>2, FS_EmptySet DEF ExclusionUnlessLapsed, S
  <2>3. ASSUME NEW c \in S PROVE ExclusionUnlessLapsed
    <3>1. S = {c}
      BY <2>1
    <3>2. Cardinality(S) = 1
      BY <3>1, FS_Singleton
    <3> QED BY <3>2 DEF ExclusionUnlessLapsed, S
  <2> QED BY <2>2, <2>3
<1>2. ASSUME prompt, MinInterval < TtlMs, NEW c \in Running \ bare
      PROVE  Owns(c) /\ (3 * MinInterval <= TtlMs => 3 * left >= 2 * TtlMs)
  <2>1. c \in Call /\ Beating(c)
    BY DEF Running, Beating
  <2>2. /\ Owns(c)
        /\ left + RenewInterval >= TtlMs + IF inFlight[c] = 0 THEN beat[c] ELSE 0
    BY <1>2, <2>1 DEF LockInv, InTime
  <2>3. left \in Nat /\ beat[c] \in Nat
    BY <2>1, Interval DEF LockInv, TypeOK
  <2>4. left + RenewInterval >= TtlMs
    <3>1. CASE inFlight[c] = 0
      BY <2>2, <2>3, <3>1, Interval
    <3>2. CASE inFlight[c] # 0
      BY <2>2, <2>3, <3>2, Interval
    <3> QED BY <3>1, <3>2
  <2> QED BY <2>2, <2>3, <2>4, Interval
<1> QED BY <1>1, <1>2 DEF LockInv, LockSafety, RenewedEveryThird

LEMMA InitLockInv == Init => LockInv
<1> SUFFICES ASSUME Init PROVE LockInv
  OBVIOUS
<1>1. TypeOK
  BY Interval, BoundsAssumption, BaresAssumption
  DEF Init, TypeOK, Nobody, Ended
<1> QED
  BY <1>1
  DEF Init, LockInv, ReturnedHoldsNothing, HeldOrLapsed, InTime, CountsOnIt, Beating

-----------------------------------------------------------------------------
(* Types.                                                                  *)
LEMMA TokenType ==
  ASSUME TypeOK, NEW c \in Call, phase[c] # "idle"
  PROVE  Token(c) \in Tokens
  BY BoundsAssumption DEF TypeOK, Token, Tokens

LEMMA NextTypes == TypeOK /\ [Next]_vars => TypeOK'
<1> SUFFICES ASSUME TypeOK, [Next]_vars PROVE TypeOK'
  OBVIOUS
<1> USE Interval, BoundsAssumption, TokensDiffer
<1>1. ASSUME NEW c \in Call, SendSet(c) PROVE TypeOK'
  BY <1>1 DEF SendSet, TypeOK, key, kind
<1>2. ASSUME NEW c \in Call, Set(c) PROVE TypeOK'
  BY <1>2, TokenType DEF Set, NotExists, TypeOK, key, kind
<1>3. ASSUME NEW c \in Call, Acquired(c) PROVE TypeOK'
  BY <1>3 DEF Acquired, TypeOK, key, kind
<1>4. ASSUME NEW c \in Call, Refused(c) PROVE TypeOK'
  <2>1. AfterRefusal(c) = "sleeping" => attempt[c] <= RetryCount
    BY DEF AfterRefusal
  <2>2. AfterRefusal(c) \in {"sleeping", "refused"}
    BY DEF AfterRefusal
  <2> QED BY <1>4, <2>1, <2>2 DEF Refused, TypeOK, Ended, key, kind
<1>5. ASSUME NEW c \in Call, SetReplyLost(c) PROVE TypeOK'
  BY <1>5, TokenType DEF SetReplyLost, Fault, TypeOK, Ended, key, kind
<1>6. ASSUME NEW c \in Call, Keepalive(c) PROVE TypeOK'
  BY <1>6 DEF Keepalive, TypeOK, key, kind
<1>7. ASSUME NEW c \in Call, Renew(c) PROVE TypeOK'
  BY <1>7 DEF Renew, Matches, TypeOK, kind
<1>8. ASSUME NEW c \in Call, FnEnds(c) PROVE TypeOK'
  BY <1>8 DEF FnEnds, TypeOK, key, kind
<1>9. ASSUME NEW c \in Call, Release(c) PROVE TypeOK'
  BY <1>9 DEF Release, Matches, TypeOK, Ended, kind
<1>10. ASSUME NEW c \in Call, ReleaseFails(c) \/ Crash(c) PROVE TypeOK'
  BY <1>10 DEF ReleaseFails, Crash, Fault, TypeOK, Ended, key, kind
<1>11. CASE Tick
  <2>1. \A c \in Call : beat'[c] \in 0 .. RenewInterval
    BY <1>11 DEF Tick, TypeOK
  <2>2. DOMAIN beat' = Call /\ beat' = [c \in Call |-> beat'[c]]
    BY <1>11 DEF Tick
  <2>3. /\ left' \in 0 .. TtlMs /\ (left' = 0 <=> owner' = Nobody)
        /\ owner' \in Tokens \cup {Nobody}
    BY <1>11 DEF Tick, TypeOK
  <2> QED BY <1>11, <2>1, <2>2, <2>3 DEF Tick, TypeOK, kind
<1>12. CASE UNCHANGED vars
  BY <1>12 DEF vars, key, call, kind, TypeOK
<1> QED
  BY <1>1, <1>2, <1>3, <1>4, <1>5, <1>6, <1>7, <1>8, <1>9, <1>10, <1>11, <1>12
  DEF Next, Step

-----------------------------------------------------------------------------
(* What the call c has, and knows.                                         *)
Entitled(c) ==
    /\ phase[c] = "returned" => ~Owns(c)
    /\ CountsOnIt(c) => Owns(c) \/ c \in lapsed
    /\ inFlight[c] > 0 => phase[c] \in {"running", "releasing"}

Prompt(c) ==
    prompt =>
        /\ phase[c] = "answered" /\ reply[c] = "OK" => Owns(c) /\ left = TtlMs
        /\ MinInterval < TtlMs /\ Beating(c) =>
             /\ Owns(c)
             /\ left + RenewInterval >=
                  TtlMs + IF inFlight[c] = 0 THEN beat[c] ELSE 0

LEMMA PerCall ==
  LockInv <=> TypeOK /\ \A c \in Call : Entitled(c) /\ Prompt(c)
  BY DEF LockInv, ReturnedHoldsNothing, HeldOrLapsed, InTime, Entitled, Prompt

(* A step that leaves a call and its hold on the key alone.                *)
LEMMA Bystander ==
  ASSUME LockInv, NEW d \in Call,
         phase'[d] = phase[d], attempt'[d] = attempt[d], reply'[d] = reply[d],
         beat'[d] = beat[d], inFlight'[d] = inFlight[d],
         lapsed' = lapsed, kind' = kind,
         Owns(d)' = Owns(d), Owns(d) => left' = left
  PROVE  Entitled(d)' /\ Prompt(d)'
<1>1. Entitled(d) /\ Prompt(d)
  BY PerCall
<1>2. prompt' = prompt /\ bare' = bare
  BY DEF kind
<1>3. Entitled(d)'
  BY <1>1 DEF Entitled, CountsOnIt, Owns
<1>4. Prompt(d)'
  BY <1>1, <1>2 DEF Prompt, Beating, Owns
<1> QED BY <1>3, <1>4

(* A step of c on the key takes it from nobody else and gives nobody else  *)
(* more of it.                                                             *)
LEMMA OneCall ==
  ASSUME LockInv, NEW c \in Call,
         \/ SendSet(c) \/ Set(c) \/ Acquired(c) \/ Refused(c) \/ SetReplyLost(c)
         \/ Keepalive(c) \/ Renew(c) \/ FnEnds(c) \/ Release(c) \/ ReleaseFails(c)
         \/ Crash(c)
  PROVE  \A d \in Call \ {c} : Entitled(d)' /\ Prompt(d)'
<1> SUFFICES ASSUME NEW d \in Call \ {c} PROVE Entitled(d)' /\ Prompt(d)'
  OBVIOUS
<1>0. /\ TypeOK /\ Token(c) # Token(d) /\ Token(d) # Nobody
  BY TokensDiffer DEF LockInv
<1>1. /\ phase'[d] = phase[d] /\ attempt'[d] = attempt[d] /\ reply'[d] = reply[d]
      /\ beat'[d] = beat[d] /\ inFlight'[d] = inFlight[d]
      /\ lapsed' = lapsed /\ kind' = kind
  <2>1. CASE SendSet(c) \/ Set(c) \/ Acquired(c) \/ Refused(c) \/ SetReplyLost(c)
    BY <1>0, <2>1 DEF SendSet, Set, Acquired, Refused, SetReplyLost, TypeOK
  <2>2. CASE Keepalive(c) \/ Renew(c) \/ FnEnds(c) \/ Release(c) \/ ReleaseFails(c) \/ Crash(c)
    BY <1>0, <2>2 DEF Keepalive, Renew, FnEnds, Release, ReleaseFails, Crash, TypeOK
  <2> QED BY <2>1, <2>2
<1>2. Token(d)' = Token(d)
  BY <1>1 DEF Token
<1>3. CASE Set(c) \/ SetReplyLost(c)
  <2>1. \/ owner' = owner /\ left' = left
        \/ owner = Nobody /\ owner' = Token(c)
    BY <1>3, <1>0 DEF Set, SetReplyLost, NotExists, key
  <2> QED BY <1>0, <1>1, <1>2, <2>1, Bystander DEF Owns
<1>4. CASE Renew(c) \/ Release(c)
  <2>1. \/ owner' = owner /\ left' = left
        \/ owner = Token(c) /\ owner' \in {Token(c), Nobody}
    BY <1>4 DEF Renew, Release, Matches
  <2> QED BY <1>0, <1>1, <1>2, <2>1, Bystander DEF Owns
<1>5. CASE \/ SendSet(c) \/ Acquired(c) \/ Refused(c) \/ Keepalive(c)
           \/ FnEnds(c) \/ ReleaseFails(c) \/ Crash(c)
  <2>1. owner' = owner /\ left' = left
    BY <1>5
    DEF SendSet, Acquired, Refused, Keepalive, FnEnds, ReleaseFails, Crash, key
  <2> QED BY <1>0, <1>1, <1>2, <2>1, Bystander DEF Owns
<1> QED BY <1>3, <1>4, <1>5

(* The call that takes the step.                                           *)
LEMMA OwnStep ==
  ASSUME LockInv, TypeOK', NEW c \in Call,
         \/ SendSet(c) \/ Set(c) \/ Acquired(c) \/ Refused(c) \/ SetReplyLost(c)
         \/ Keepalive(c) \/ Renew(c) \/ FnEnds(c) \/ Release(c) \/ ReleaseFails(c)
         \/ Crash(c)
  PROVE  Entitled(c)' /\ Prompt(c)'
<1>0. /\ TypeOK /\ Token(c) # Nobody /\ Entitled(c) /\ Prompt(c)
      /\ inFlight[c] \in Nat /\ inFlight'[c] \in Nat
      /\ beat[c] \in 0 .. RenewInterval /\ left \in Nat
  BY TokensDiffer, PerCall, Interval, BoundsAssumption DEF LockInv, TypeOK
<1>1. CASE SendSet(c)
  <2>1. phase'[c] = "setting" /\ inFlight'[c] = inFlight[c] /\ ~(inFlight[c] > 0)
    BY <1>0, <1>1 DEF SendSet, TypeOK, Entitled
  <2> QED BY <1>0, <2>1 DEF Entitled, Prompt, CountsOnIt, Beating
<1>2. CASE Set(c)
  <2>1. phase'[c] = "answered" /\ inFlight'[c] = inFlight[c] /\ ~(inFlight[c] > 0)
    BY <1>0, <1>2 DEF Set, TypeOK, Entitled
  <2>2. \/ owner' = Token(c) /\ left' = TtlMs /\ attempt' = attempt
        \/ reply'[c] = "null"
    BY <1>0, <1>2 DEF Set, TypeOK
  <2> QED BY <1>0, <2>1, <2>2 DEF Entitled, Prompt, CountsOnIt, Beating, Owns, Token
<1>3. CASE Acquired(c)
  <2>1. /\ phase[c] = "answered" /\ reply[c] = "OK" /\ phase'[c] = "running"
        /\ beat'[c] = RenewInterval
        /\ UNCHANGED <<owner, left, attempt, inFlight, lapsed, prompt, bare>>
    BY <1>0, <1>3 DEF Acquired, TypeOK, key, kind
  <2>2. Owns(c)' = Owns(c) /\ ~(inFlight[c] > 0)
    BY <1>0, <2>1 DEF Owns, Token, Entitled
  <2>3. Entitled(c)'
    BY <1>0, <2>1, <2>2 DEF Entitled, CountsOnIt
  <2>4. Prompt(c)'
    <3>1. prompt => Owns(c) /\ left = TtlMs
      BY <1>0, <2>1 DEF Prompt
    <3>2. inFlight'[c] = 0 /\ left' + RenewInterval = left + beat'[c]
      BY <1>0, <2>1, <2>2
    <3> QED BY <1>0, <2>1, <2>2, <3>1, <3>2, Interval DEF Prompt
  <2> QED BY <2>3, <2>4
<1>4. CASE Refused(c)
  <2>1. /\ phase'[c] \in {"sleeping", "refused"}
        /\ inFlight'[c] = inFlight[c] /\ ~(inFlight[c] > 0)
    BY <1>0, <1>4 DEF Refused, AfterRefusal, TypeOK, Entitled
  <2> QED BY <1>0, <2>1 DEF Entitled, Prompt, CountsOnIt, Beating
<1>5. CASE SetReplyLost(c)
  <2>1. /\ phase[c] = "answered" /\ ~prompt /\ prompt' = prompt
        /\ inFlight'[c] = inFlight[c] /\ ~(inFlight[c] > 0) /\ attempt' = attempt
        /\ \/ phase'[c] = "answered" /\ (reply'[c] = "OK" => owner' = Token(c))
           \/ phase'[c] = "failed"
    BY <1>0, <1>5 DEF SetReplyLost, Fault, TypeOK, Entitled, kind
  <2> QED BY <1>0, <2>1 DEF Entitled, Prompt, CountsOnIt, Owns, Token
<1>6. CASE Keepalive(c)
  <2>1. /\ phase[c] = "running" /\ beat[c] = 0 /\ inFlight'[c] = inFlight[c] + 1
        /\ UNCHANGED <<owner, left, phase, attempt, lapsed, prompt, bare>>
    BY <1>0, <1>6 DEF Keepalive, Beating, TypeOK, key, kind
  <2>2. Owns(c)' = Owns(c)
    BY <2>1 DEF Owns, Token
  <2>3. Entitled(c)'
    BY <1>0, <2>1, <2>2 DEF Entitled, CountsOnIt
  <2>4. ASSUME prompt, MinInterval < TtlMs, Beating(c)
        PROVE  Owns(c) /\ left' + RenewInterval >= TtlMs + 0
    BY <1>0, <2>1, <2>4, Interval DEF Prompt
  <2>5. inFlight'[c] # 0
    BY <1>0, <2>1
  <2> QED BY <2>1, <2>2, <2>3, <2>4, <2>5 DEF Prompt, Beating
<1>7. CASE Renew(c)
  <2>1. /\ inFlight[c] > 0 /\ phase[c] \in {"running", "releasing"}
        /\ UNCHANGED <<owner, phase, attempt, beat, lapsed, prompt, bare>>
        /\ left' = IF Owns(c) THEN TtlMs ELSE left
    BY <1>0, <1>7 DEF Renew, Matches, Owns, TypeOK, Entitled, kind
  <2>2. Owns(c)' = Owns(c)
    BY <2>1 DEF Owns, Token
  <2>3. Entitled(c)'
    BY <1>0, <2>1, <2>2 DEF Entitled, CountsOnIt
  <2>4. ASSUME prompt, MinInterval < TtlMs, Beating(c)
        PROVE  /\ Owns(c) /\ left' = TtlMs
               /\ beat'[c] \in Nat /\ beat'[c] <= RenewInterval
    BY <1>0, <2>1, <2>4, Interval DEF Prompt
  <2>5. Prompt(c)'
    <3>1. CASE inFlight'[c] = 0
      BY <2>1, <2>2, <2>4, <3>1, Interval DEF Prompt, Beating
    <3>2. CASE inFlight'[c] # 0
      BY <2>1, <2>2, <2>4, <3>2, Interval DEF Prompt, Beating
    <3> QED BY <3>1, <3>2
  <2> QED BY <2>3, <2>5
<1>8. CASE FnEnds(c)
  <2>1. phase'[c] = "releasing"
    BY <1>0, <1>8 DEF FnEnds, TypeOK
  <2> QED BY <2>1 DEF Entitled, Prompt, CountsOnIt, Beating
<1>9. CASE Release(c)
  <2>1. /\ phase'[c] = "returned" /\ inFlight'[c] = 0 /\ owner' # Token(c)
        /\ attempt' = attempt
    BY <1>0, <1>9 DEF Release, Matches, TypeOK
  <2> QED BY <2>1 DEF Entitled, Prompt, CountsOnIt, Beating, Owns, Token
<1>10. CASE ReleaseFails(c) \/ Crash(c)
  <2>1. phase'[c] \in {"failed", "crashed"} /\ inFlight'[c] = 0
    BY <1>0, <1>10 DEF ReleaseFails, Crash, TypeOK
  <2> QED BY <2>1 DEF Entitled, Prompt, CountsOnIt, Beating
<1> QED BY <1>1, <1>2, <1>3, <1>4, <1>5, <1>6, <1>7, <1>8, <1>9, <1>10

(* Time passes: who loses the key and counts on it is marked, and where    *)
(* nothing is late nobody does.                                            *)
LEMMA TickStep ==
  ASSUME LockInv, TypeOK', Tick, NEW c \in Call
  PROVE  Entitled(c)' /\ Prompt(c)'
<1>0. /\ TypeOK /\ Token(c) # Nobody /\ Entitled(c) /\ Prompt(c)
      /\ inFlight[c] \in Nat /\ beat[c] \in Nat /\ left \in 0 .. TtlMs
      /\ (left = 0 <=> owner = Nobody)
  BY TokensDiffer, PerCall, Interval, BoundsAssumption DEF LockInv, TypeOK
<1>1. /\ UNCHANGED <<phase, attempt, reply, inFlight, prompt, bare>>
      /\ left' = IF left > 0 THEN left - 1 ELSE 0
      /\ owner' = IF left' = 0 THEN Nobody ELSE owner
      /\ lapsed \subseteq lapsed'
      /\ left = 1 /\ CountsOnIt(c) /\ Owns(c) => c \in lapsed'
      /\ Token(c)' = Token(c) /\ CountsOnIt(c)' = CountsOnIt(c)
      /\ Beating(c)' = Beating(c)
      /\ Beating(c) /\ beat[c] > 0 => beat'[c] = beat[c] - 1
  BY DEF Tick, kind, Token, CountsOnIt, Beating
<1>2. Entitled(c)'
  <2>1. Owns(c)' => Owns(c)
    BY <1>0, <1>1 DEF Owns
  <2>2. ASSUME CountsOnIt(c), Owns(c) PROVE Owns(c)' \/ c \in lapsed'
    <3>1. left > 0
      BY <1>0, <2>2 DEF Owns
    <3>2. CASE left = 1
      BY <1>1, <2>2, <3>2
    <3>3. CASE left # 1
      <4>1. left' # 0
        BY <1>0, <1>1, <3>1, <3>3, Interval
      <4> QED BY <1>1, <2>2, <4>1 DEF Owns
    <3> QED BY <3>2, <3>3
  <2> QED BY <1>0, <1>1, <2>1, <2>2 DEF Entitled
<1>3. Prompt(c)'
  <2> SUFFICES ASSUME prompt PROVE Prompt(c)'
    BY <1>1 DEF Prompt
  <2>1. phase[c] # "answered" /\ inFlight[c] = 0 /\ (Beating(c) => beat[c] > 0)
    BY DEF Tick, Served
  <2>2. ASSUME MinInterval < TtlMs, Beating(c)
        PROVE  Owns(c)' /\ left' + RenewInterval >= TtlMs + beat'[c]
    <3>1. Owns(c) /\ left + RenewInterval >= TtlMs + beat[c]
      BY <1>0, <2>1, <2>2 DEF Prompt
    <3>2. beat[c] > 0 /\ beat'[c] = beat[c] - 1 /\ RenewInterval < TtlMs
      BY <1>1, <2>1, <2>2, Interval
    <3>3. left > 1
      BY <1>0, <3>1, <3>2, Interval
    <3>4. left' = left - 1 /\ left' # 0
      BY <1>0, <1>1, <3>3, Interval
    <3>5. Owns(c)'
      BY <1>1, <3>1, <3>4 DEF Owns
    <3> QED BY <1>0, <3>1, <3>2, <3>4, <3>5, Interval
  <2> QED BY <1>1, <2>1, <2>2 DEF Prompt
<1> QED BY <1>2, <1>3

LEMMA NextLockInv == LockInv /\ [Next]_vars => LockInv'
<1> SUFFICES ASSUME LockInv, [Next]_vars PROVE LockInv'
  OBVIOUS
<1>0. TypeOK'
  BY NextTypes DEF LockInv
<1>1. ASSUME NEW c \in Call, Step(c) PROVE \A d \in Call : Entitled(d)' /\ Prompt(d)'
  BY <1>0, <1>1, OneCall, OwnStep DEF Step
<1>2. ASSUME Tick PROVE \A d \in Call : Entitled(d)' /\ Prompt(d)'
  BY <1>0, <1>2, TickStep
<1>3. ASSUME UNCHANGED vars PROVE \A d \in Call : Entitled(d)' /\ Prompt(d)'
  <2>1. ASSUME NEW d \in Call PROVE Entitled(d)' /\ Prompt(d)'
    <3>1. Owns(d)' = Owns(d)
      BY <1>3 DEF vars, key, call, Owns, Token
    <3> QED BY <1>3, <3>1, Bystander DEF vars, key, call
  <2> QED BY <2>1
<1>4. \A d \in Call : Entitled(d)' /\ Prompt(d)'
  BY <1>1, <1>2, <1>3 DEF Next
<1>5. LockInv' <=> TypeOK' /\ \A d \in Call : Entitled(d)' /\ Prompt(d)'
  BY DEF LockInv, ReturnedHoldsNothing, HeldOrLapsed, InTime, Entitled, Prompt
<1> QED BY <1>0, <1>4, <1>5

LEMMA Invariant == Spec => []LockInv
  BY InitLockInv, NextLockInv, PTL DEF Spec

(* The lock's invariant: two calls run fn() at once only if one has lost   *)
(* the key to its time to live, which the keepalive prevents where nothing *)
(* is late; and a call that has returned holds nothing.                    *)
THEOREM Invariance == Spec => []LockSafety
  BY Invariant, LockInvSuffices, PTL

-----------------------------------------------------------------------------
(* Only the caller whose token is stored prolongs the lease or ends it     *)
(* early, whatever requests arrive late.                                   *)
THEOREM HolderTouches == Spec => OnlyHolderTouches
<1>1. ASSUME LockInv, [Next]_vars
      PROVE  /\ owner = owner' /\ left' > left =>
                  \E c \in Call : Owns(c) /\ phase[c] \in {"running", "releasing"}
             /\ owner # Nobody /\ owner # owner' =>
                  left = 1 \/ \E c \in Call : Owns(c) /\ phase[c] = "releasing"
  <2>0. /\ left \in 0 .. TtlMs /\ (left = 0 <=> owner = Nobody)
        /\ \A c \in Call : Token(c) # Nobody
        /\ \A c \in Call : inFlight[c] > 0 => phase[c] \in {"running", "releasing"}
    BY <1>1, TokensDiffer DEF LockInv, TypeOK, HeldOrLapsed
  <2>1. CASE UNCHANGED key
    BY <2>0, <2>1, Interval DEF key
  <2>2. CASE Tick
    BY <2>0, <2>2, Interval DEF Tick
  <2>3. ASSUME NEW c \in Call, Set(c) \/ SetReplyLost(c), ~UNCHANGED key
        PROVE  owner = Nobody /\ owner' # owner
    BY <2>0, <2>3 DEF Set, SetReplyLost, NotExists, key
  <2>4. ASSUME NEW c \in Call, Renew(c), ~UNCHANGED key
        PROVE  owner' = owner /\ Owns(c) /\ phase[c] \in {"running", "releasing"}
    BY <2>0, <2>4 DEF Renew, Matches, Owns, key
  <2>5. ASSUME NEW c \in Call, Release(c), ~UNCHANGED key
        PROVE  Owns(c) /\ phase[c] = "releasing"
    BY <2>5 DEF Release, Matches, Owns, key
  <2>6. ASSUME NEW c \in Call,
               \/ SendSet(c) \/ Acquired(c) \/ Refused(c) \/ Keepalive(c)
               \/ FnEnds(c) \/ ReleaseFails(c) \/ Crash(c)
        PROVE  UNCHANGED key
    BY <2>6 DEF SendSet, Acquired, Refused, Keepalive, FnEnds, ReleaseFails, Crash
  <2>7. CASE UNCHANGED vars
    BY <2>1, <2>7 DEF vars
  <2>8. ASSUME NEW c \in Call, Step(c)
        PROVE  \/ UNCHANGED key
               \/ owner = Nobody /\ owner' # owner
               \/ owner' = owner /\ Owns(c) /\ phase[c] \in {"running", "releasing"}
               \/ Owns(c) /\ phase[c] = "releasing"
    BY <2>3, <2>4, <2>5, <2>6, <2>8 DEF Step
  <2> QED BY <1>1, <2>1, <2>2, <2>7, <2>8 DEF Next
<1>2. LockInv /\ [Next]_vars =>
        [/\ owner = owner' /\ left' > left =>
                \E c \in Call : Owns(c) /\ phase[c] \in {"running", "releasing"}
         /\ owner # Nobody /\ owner # owner' =>
                left = 1 \/ \E c \in Call : Owns(c) /\ phase[c] = "releasing"]_vars
  BY <1>1
<1> QED BY <1>2, Invariant, PTL DEF Spec, OnlyHolderTouches
=============================================================================
