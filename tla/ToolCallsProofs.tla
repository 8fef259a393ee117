-------------------------- MODULE ToolCallsProofs --------------------------
(***************************************************************************)
(* What holds of every tool, every number of callers and every breaker     *)
(* policy.  Two inductive invariants: ProbeInv needs nothing of the         *)
(* timeouts, SingleInv needs them shorter than the cooldown.                *)
(***************************************************************************)
EXTENDS ToolCalls, TLAPS

-----------------------------------------------------------------------------
(* The breaker's operations.                                                *)

\* Every operation of the breaker maps states of the breaker to such states.
LEMMA BreakerTypes ==
    ASSUME NEW b \in BreakerState, NEW code
    PROVE  /\ FreshState \in BreakerState
           /\ Asked(b) \in BreakerState
           /\ Abandon(b) \in BreakerState
           /\ Older(b) \in BreakerState
           /\ RecordOutcome(b, code) \in BreakerState
<1>1. FreshState \in BreakerState
  BY ToolAssumption DEF FreshState, BreakerState
<1>2. Asked(b) \in BreakerState
  BY DEF Asked, BreakerState
<1>3. Abandon(b) \in BreakerState
  BY DEF Abandon, BreakerState
<1>4. Older(b) \in BreakerState
  <2>1. \A a \in Age : a # 0 => a - 1 \in Age
    BY ToolAssumption DEF Age
  <2>2. [a \in Age |-> IF a = 0 THEN 0 ELSE b.failures[a - 1]] \in [Age -> Nat]
    BY <2>1 DEF BreakerState
  <2>3. (IF b.opened /\ b.age < Cooldown THEN b.age + 1 ELSE b.age) \in 0 .. Cooldown
    BY ToolAssumption DEF BreakerState
  <2> QED
    BY <2>2, <2>3 DEF Older, BreakerState
<1>5. RecordSuccess(b) \in BreakerState
  BY <1>1 DEF RecordSuccess, BreakerState
<1>6. CASE b.opened
  <2>1. RecordFailure(b) = [b EXCEPT !.age = 0, !.probing = FALSE]
    BY <1>6 DEF RecordFailure
  <2>2. 0 \in 0 .. Cooldown
    BY ToolAssumption
  <2>3. RecordFailure(b) \in BreakerState
    BY <2>1, <2>2 DEF BreakerState
  <2> QED
    BY <1>1, <1>2, <1>3, <1>4, <1>5, <2>3 DEF RecordOutcome
<1>7. CASE ~b.opened
  <2> DEFINE counted == [b.failures EXCEPT ![0] = @ + 1]
             over == SumFunction(counted) >= Threshold
  <2>1. counted \in [Age -> Nat]
    BY ToolAssumption DEF BreakerState, Age
  <2>2. over \in BOOLEAN
    OBVIOUS
  <2>3. RecordFailure(b) = [b EXCEPT !.failures = counted, !.opened = over]
    BY <1>7 DEF RecordFailure
  <2> HIDE DEF counted, over
  <2>4. RecordFailure(b) \in BreakerState
    BY <2>3, <2>1, <2>2 DEF BreakerState
  <2> QED
    BY <1>1, <1>2, <1>3, <1>4, <1>5, <2>4 DEF RecordOutcome
<1> QED
  BY <1>6, <1>7 DEF BreakerState

-----------------------------------------------------------------------------
(* Type correctness.                                                        *)

LEMMA MaxAttemptsType ==
    ASSUME tool \in Tools
    PROVE  MaxAttempts \in Nat \ {0} /\ tool.timeout \in Nat
BY ToolAssumption DEF MaxAttempts, ToolSpec

LEMMA IdleType ==
    ASSUME tool \in Tools, NEW result \in Result, NEW effects \in Nat
    PROVE  Idle(result, effects) \in CallState
BY MaxAttemptsType DEF Idle, CallState

LEMMA TypeStep == TypeOK /\ [Next]_vars => TypeOK'
<1> SUFFICES ASSUME TypeOK, [Next]_vars PROVE TypeOK'
  OBVIOUS
<1>1. ASSUME NEW c \in Caller, Refuse(c) PROVE TypeOK'
  <2>1. PICK code \in Verdicts :
          call' = [call EXCEPT ![c] =
                     Idle(IF code = "none" THEN "circuit_open" ELSE code, 0)]
    BY <1>1 DEF Refuse
  <2>2. code \in Result
    <3>1. \A r \in Request : Refusal(r) \in Result
      BY Zenon DEF Refusal, Result
    <3> QED
      BY <3>1, <2>1 DEF Verdicts
  <2>3. (IF code = "none" THEN "circuit_open" ELSE code) \in Result
    BY <2>2 DEF Result
  <2>4. Idle(IF code = "none" THEN "circuit_open" ELSE code, 0) \in CallState
    BY <2>3, IdleType DEF TypeOK
  <2> QED
    BY <1>1, <2>1, <2>4 DEF Refuse, TypeOK, CallState, MaxAttempts, RetrySafe
<1>2. ASSUME NEW c \in Caller, Start(c) PROVE TypeOK'
  <2>1. Idle("none", 0) \in CallState
    BY IdleType DEF TypeOK, Result
  <2>2. [Idle("none", 0) EXCEPT !.running = TRUE, !.attempt = 1] \in CallState
    <3>1. 1 \in 0 .. MaxAttempts
      BY MaxAttemptsType DEF TypeOK
    <3> QED
      BY <2>1, <3>1 DEF CallState
  <2> QED
    BY <1>2, <2>2, BreakerTypes DEF Start, TypeOK, CallState, MaxAttempts, RetrySafe
<1>3. ASSUME NEW c \in Caller, AttemptEnds(c) PROVE TypeOK'
  <2>1. PICK o \in Possible : /\ breaker' = BreakerAfter(o)
                              /\ call' = [call EXCEPT ![c] = CallAfter(c, o)]
    BY <1>3 DEF AttemptEnds
  <2>2. BreakerAfter(o) \in BreakerState
    BY BreakerTypes DEF TypeOK, BreakerAfter
  <2>3. EffectsAfter(c, o.landed) \in Nat
    BY DEF EffectsAfter, TypeOK, CallState
  <2>4. o.code \in Result
    BY DEF Possible, Outcome, Result
  <2>5. Idle(o.code, EffectsAfter(c, o.landed)) \in CallState
    BY <2>3, <2>4, IdleType DEF TypeOK
  <2>6. ASSUME GoesOn(c, o)
        PROVE  [call[c] EXCEPT !.attempt = @ + 1, !.age = 0, !.reported = TRUE,
                               !.effects = EffectsAfter(c, o.landed)] \in CallState
    <3>1. 0 \in 0 .. tool.timeout
      BY MaxAttemptsType DEF TypeOK
    <3>2. call[c].attempt + 1 \in 0 .. MaxAttempts
      BY <2>6, MaxAttemptsType DEF TypeOK, CallState, GoesOn
    <3>3. call[c] \in CallState
      BY DEF TypeOK
    <3> QED
      BY <2>3, <3>1, <3>2, <3>3 DEF CallState
  <2>7. CallAfter(c, o) \in CallState
    BY <2>5, <2>6 DEF CallAfter
  <2> QED
    BY <1>3, <2>1, <2>2, <2>7 DEF AttemptEnds, TypeOK, CallState, MaxAttempts, RetrySafe
<1>4. ASSUME NEW c \in Caller, Cancel(c) PROVE TypeOK'
  <2>1. PICK landed \in BOOLEAN :
          call' = [call EXCEPT ![c] = Idle("cancelled", EffectsAfter(c, landed))]
    BY <1>4 DEF Cancel
  <2>2. EffectsAfter(c, landed) \in Nat
    BY DEF EffectsAfter, TypeOK, CallState
  <2>3. Idle("cancelled", EffectsAfter(c, landed)) \in CallState
    BY <2>2, IdleType DEF TypeOK, Result
  <2> QED
    BY <1>4, <2>1, <2>3, BreakerTypes DEF Cancel, TypeOK, CallState, MaxAttempts, RetrySafe
<1>5. CASE Reset
  BY <1>5, BreakerTypes DEF Reset, TypeOK, CallState, MaxAttempts, RetrySafe
<1>6. CASE Tick
  <2>1. \A c \in Caller :
          [call[c] EXCEPT !.age = IF InFlight(c) THEN @ + 1 ELSE @] \in CallState
    BY <1>6, MaxAttemptsType DEF Tick, TypeOK, CallState, InFlight
  <2> QED
    BY <1>6, <2>1, BreakerTypes DEF Tick, TypeOK, CallState, MaxAttempts, RetrySafe
<1>7. CASE Weather
  BY <1>7 DEF Weather, TypeOK, CallState, MaxAttempts, RetrySafe
<1>8. CASE UNCHANGED vars
  BY <1>8 DEF vars, TypeOK, CallState, MaxAttempts, RetrySafe
<1> QED
  BY <1>1, <1>2, <1>3, <1>4, <1>5, <1>6, <1>7, <1>8 DEF Next

\* The types hold in every reachable state, for any tool and any policy.
THEOREM TypeCorrect == Spec => []TypeOK
<1>1. Init => TypeOK
  <2> SUFFICES ASSUME Init PROVE TypeOK
    OBVIOUS
  <2>1. FreshState \in BreakerState
    BY ToolAssumption DEF FreshState, BreakerState
  <2>2. Idle("none", 0) \in CallState
    BY IdleType DEF Init, Result
  <2> QED
    BY <2>1, <2>2 DEF Init, TypeOK
<1> QED
  BY <1>1, TypeStep, PTL DEF Spec

-----------------------------------------------------------------------------
(* The probe always has an owner.                                           *)

\* Once an attempt is told to the breaker, no probe is out and the circuit is
\* closed or has its whole cooldown before it: asking again takes no probe.
LEMMA Told ==
    ASSUME TypeOK, ClosedIsQuiet, NEW o \in Possible
    PROVE  /\ ~BreakerAfter(o).probing
           /\ BreakerAfter(o).age = 0
           /\ BreakerAfter(o) = RecordOutcome(breaker, o.code)
<1> DEFINE r == RecordOutcome(breaker, o.code)
<1>1. r \in BreakerState
  BY BreakerTypes DEF TypeOK
<1>2. ~r.probing /\ r.age = 0
  <2>1. ~FreshState.probing /\ FreshState.age = 0
    BY DEF FreshState
  <2>2. CASE breaker.opened
    BY <2>1, <2>2 DEF RecordOutcome, RecordSuccess, RecordFailure, TypeOK, BreakerState
  <2>3. CASE ~breaker.opened
    BY <2>3 DEF RecordOutcome, RecordSuccess, RecordFailure, TypeOK, BreakerState,
                ClosedIsQuiet
  <2> QED
    BY <2>2, <2>3
<1>3. State(r) # "half_open"
  BY <1>2, ToolAssumption DEF State
<1> HIDE DEF r
<1>4. Asked(r) = r
  BY <1>1, <1>3 DEF Asked, BreakerState
<1>5. BreakerAfter(o) = r
  BY <1>4 DEF BreakerAfter, r
<1> QED
  BY <1>2, <1>5 DEF r

LEMMA ProbeStep == ProbeInv /\ [Next]_vars => ProbeInv'
<1> SUFFICES ASSUME ProbeInv, [Next]_vars
             PROVE  (ClosedIsQuiet /\ ProbesAfterCooldown /\ ProbeOwned)'
  BY TypeStep DEF ProbeInv
<1> USE DEF InFlight
<1>0. breaker \in BreakerState /\ \A c \in Caller : call[c] \in CallState
  BY DEF ProbeInv, TypeOK
<1>1. ASSUME NEW c \in Caller, Refuse(c)
      PROVE  (ClosedIsQuiet /\ ProbesAfterCooldown /\ ProbeOwned)'
  <2>1. breaker' = breaker /\ prober' = prober /\ ~call[c].running
    BY <1>1 DEF Refuse
  <2>2. \A d \in Caller : d # c => call'[d] = call[d]
    BY <1>1 DEF Refuse, ProbeInv, TypeOK
  <2> QED
    BY <2>1, <2>2 DEF ProbeInv, ClosedIsQuiet, ProbesAfterCooldown, ProbeOwned
<1>2. ASSUME NEW c \in Caller, Start(c)
      PROVE  (ClosedIsQuiet /\ ProbesAfterCooldown /\ ProbeOwned)'
  <2>1. call'[c].running /\ ~call'[c].reported
    BY <1>2 DEF Start, ProbeInv, TypeOK, Idle
  <2>2. CASE State(breaker) = "half_open"
    <3>1. breaker.opened /\ breaker.age = Cooldown
      BY <1>0, <2>2, ToolAssumption DEF State, BreakerState
    <3>2. breaker' = [breaker EXCEPT !.probing = TRUE] /\ prober' = c
      BY <1>0, <1>2, <2>2 DEF Start, Asked, BreakerState
    <3>3. breaker'.opened /\ breaker'.age = Cooldown
      BY <1>0, <3>1, <3>2 DEF BreakerState
    <3> QED
      BY <2>1, <3>2, <3>3 DEF ClosedIsQuiet, ProbesAfterCooldown, ProbeOwned
  <2>3. CASE State(breaker) # "half_open"
    <3>1. ~breaker.opened
      BY <1>2, <2>3 DEF Start, Allowed, State
    <3>2. breaker' = breaker
      BY <1>0, <1>2, <2>3 DEF Start, Asked, BreakerState
    <3> QED
      BY <3>1, <3>2 DEF ProbeInv, ClosedIsQuiet, ProbesAfterCooldown, ProbeOwned
  <2> QED
    BY <2>2, <2>3
<1>3. ASSUME NEW c \in Caller, AttemptEnds(c)
      PROVE  (ClosedIsQuiet /\ ProbesAfterCooldown /\ ProbeOwned)'
  BY <1>3, Told DEF AttemptEnds, ProbeInv, ClosedIsQuiet, ProbesAfterCooldown, ProbeOwned
<1>4. ASSUME NEW c \in Caller, Cancel(c)
      PROVE  (ClosedIsQuiet /\ ProbesAfterCooldown /\ ProbeOwned)'
  <2>1. \A d \in Caller : d # c => call'[d] = call[d]
    BY <1>4 DEF Cancel, ProbeInv, TypeOK
  <2>2. CASE call[c].reported
    BY <1>4, <2>1, <2>2 DEF Cancel, ProbeInv, ClosedIsQuiet, ProbesAfterCooldown, ProbeOwned
  <2>3. CASE ~call[c].reported
    <3>1. breaker' = [breaker EXCEPT !.probing = FALSE]
      BY <1>4, <2>3 DEF Cancel, Abandon
    <3> QED
      BY <1>0, <3>1 DEF BreakerState, ProbeInv, ClosedIsQuiet, ProbesAfterCooldown, ProbeOwned
  <2> QED
    BY <2>2, <2>3
<1>5. CASE Reset
  BY <1>5 DEF Reset, FreshState, ClosedIsQuiet, ProbesAfterCooldown, ProbeOwned
<1>6. CASE Tick
  <2>1. /\ breaker'.opened = breaker.opened
        /\ breaker'.probing = breaker.probing
        /\ breaker'.age = IF breaker.opened /\ breaker.age < Cooldown
                          THEN breaker.age + 1 ELSE breaker.age
    BY <1>0, <1>6 DEF Tick, Older, BreakerState
  <2>2. \A d \in Caller : /\ call'[d].running = call[d].running
                          /\ call'[d].reported = call[d].reported
    BY <1>0, <1>6 DEF Tick, CallState
  <2>3. ClosedIsQuiet' /\ ProbesAfterCooldown'
    BY <2>1, ToolAssumption DEF ProbeInv, ClosedIsQuiet, ProbesAfterCooldown
  <2>4. ProbeOwned'
    BY <1>6, <2>1, <2>2 DEF Tick, ProbeInv, ProbeOwned
  <2> QED
    BY <2>3, <2>4
<1>7. CASE Weather \/ UNCHANGED vars
  BY <1>7 DEF Weather, vars, ProbeInv, ClosedIsQuiet, ProbesAfterCooldown, ProbeOwned
<1> QED
  BY <1>1, <1>2, <1>3, <1>4, <1>5, <1>6, <1>7 DEF Next

LEMMA ProbeInvariant == Spec => []ProbeInv
<1>1. Init => ClosedIsQuiet /\ ProbesAfterCooldown /\ ProbeOwned
  BY DEF Init, FreshState, ClosedIsQuiet, ProbesAfterCooldown, ProbeOwned
<1>2. Init /\ TypeOK => ProbeInv
  BY <1>1 DEF ProbeInv
<1> QED
  BY <1>2, ProbeStep, TypeCorrect, PTL DEF Spec

\* A half-open tool can never be stuck with its one probe spent: whatever
\* callers do, a probe that is out is held by a call that will give it back.
THEOREM ProbeIsOwned == Spec => []ProbeOwned
<1>1. ProbeInv => ProbeOwned
  BY DEF ProbeInv
<1> QED
  BY <1>1, ProbeInvariant, PTL

\* No attempt, first or repeated, goes out into an open circuit.
THEOREM NeverIntoAnOpenCircuit == Spec => FailsFast
<1>1. ASSUME ProbeInv, [Next]_vars, NEW c \in Caller, GoesOut(c)
      PROVE  State(breaker') # "open"
  <2> USE DEF InFlight, GoesOut
  <2>0. breaker \in BreakerState /\ call \in [Caller -> CallState]
    BY <1>1 DEF ProbeInv, TypeOK
  <2>1. ASSUME NEW d \in Caller, Start(d) PROVE State(breaker') # "open"
    <3>1. breaker'.opened = breaker.opened /\ breaker'.age = breaker.age
      BY <2>0, <2>1 DEF Start, Asked, BreakerState
    <3> QED
      BY <2>1, <3>1 DEF Start, Allowed, State
  <2>2. ASSUME NEW d \in Caller, AttemptEnds(d) PROVE State(breaker') # "open"
    <3>1. PICK o \in Possible : /\ breaker' = BreakerAfter(o)
                                /\ call' = [call EXCEPT ![d] = CallAfter(d, o)]
      BY <2>2 DEF AttemptEnds
    <3>2. d = c
      BY <1>1, <2>0, <3>1
    <3>3. call'[c] = CallAfter(c, o)
      BY <2>0, <3>1, <3>2
    <3>4. GoesOn(c, o)
      BY <1>1, <3>3 DEF CallAfter, Idle
    <3>5. breaker' = RecordOutcome(breaker, o.code)
      BY <1>1, <3>1, Told DEF ProbeInv
    <3> QED
      BY <3>4, <3>5 DEF GoesOn, Allowed
  <2>3. ASSUME NEW d \in Caller, Refuse(d) \/ Cancel(d) PROVE FALSE
    <3>1. PICK x \in Caller : \E y, z : call' = [call EXCEPT ![x] = Idle(y, z)]
      BY <2>3 DEF Refuse, Cancel
    <3> QED
      BY <1>1, <2>0, <3>1 DEF Idle
  <2>4. ASSUME Reset \/ Weather \/ UNCHANGED vars PROVE FALSE
    BY <1>1, <2>4 DEF Reset, Weather, vars
  <2>5. ASSUME Tick PROVE FALSE
    BY <1>1, <2>0, <2>5 DEF Tick, CallState
  <2> QED
    BY <1>1, <2>1, <2>2, <2>3, <2>4, <2>5 DEF Next
<1>2. ProbeInv /\ [Next]_vars
        => [\A c \in Caller : GoesOut(c) => State(breaker') # "open"]_vars
  BY <1>1
<1> QED
  BY <1>2, ProbeInvariant, PTL DEF Spec, FailsFast

-----------------------------------------------------------------------------
(* One call of a write has at most one effect.                              *)

LEMMA EffectStep == EffectInv /\ [Next]_vars => EffectInv'
<1> SUFFICES ASSUME EffectInv, [Next]_vars PROVE EffectInv'
  OBVIOUS
<1> USE DEF InFlight
<1>0. TypeOK /\ TypeOK' /\ call \in [Caller -> CallState]
  BY TypeStep DEF EffectInv, TypeOK
<1>1. ASSUME NEW c \in Caller, Refuse(c) PROVE EffectInv'
  BY <1>0, <1>1 DEF Refuse, EffectInv, Idle
<1>2. ASSUME NEW c \in Caller, Start(c) PROVE EffectInv'
  BY <1>0, <1>2 DEF Start, EffectInv, Idle
<1>3. ASSUME NEW c \in Caller, AttemptEnds(c) PROVE EffectInv'
  <2>1. PICK o \in Possible : call' = [call EXCEPT ![c] = CallAfter(c, o)]
    BY <1>3 DEF AttemptEnds
  <2>2. call'[c] = CallAfter(c, o) /\ \A d \in Caller : d # c => call'[d] = call[d]
    BY <1>0, <2>1
  <2>3. call[c] \in CallState /\ call[c].attempt >= 1
    BY <1>0, <1>3 DEF AttemptEnds, EffectInv
  <2>4. call'[c].running => call'[c].attempt >= 1
    BY <2>2, <2>3 DEF CallAfter, Idle, CallState
  <2>5. ASSUME tool.risk # "read"
        PROVE  /\ call'[c].effects <= 1
               /\ call'[c].running /\ ~tool.idempotent => call'[c].effects = 0
    <3>1. call[c].effects \in Nat /\ call[c].effects <= 1
      BY <2>3, <2>5 DEF EffectInv, CallState
    <3>2. ~tool.idempotent => call[c].effects = 0
      BY <1>3, <2>5 DEF AttemptEnds, EffectInv
    <3>3. call'[c].effects = EffectsAfter(c, o.landed)
      BY <2>2, <2>3 DEF CallAfter, Idle, CallState
    <3>4. EffectsAfter(c, o.landed) <= 1
      BY <3>1, <3>2 DEF EffectsAfter
    <3>5. ~tool.idempotent => ~GoesOn(c, o)
      BY <2>3, <2>5 DEF GoesOn, MaxAttempts, RetrySafe, CallState
    <3> QED
      BY <2>2, <3>3, <3>4, <3>5 DEF CallAfter, Idle
  <2> QED
    BY <1>0, <1>3, <2>2, <2>4, <2>5 DEF AttemptEnds, EffectInv
<1>4. ASSUME NEW c \in Caller, Cancel(c) PROVE EffectInv'
  <2>1. PICK landed \in BOOLEAN :
          call' = [call EXCEPT ![c] = Idle("cancelled", EffectsAfter(c, landed))]
    BY <1>4 DEF Cancel
  <2>2. tool.risk # "read" => EffectsAfter(c, landed) <= 1
    BY <1>0, <1>4 DEF Cancel, EffectInv, EffectsAfter, CallState
  <2> QED
    BY <1>0, <1>4, <2>1, <2>2 DEF Cancel, EffectInv, Idle
<1>5. CASE Tick
  <2>1. \A d \in Caller : /\ call'[d].running = call[d].running
                          /\ call'[d].attempt = call[d].attempt
                          /\ call'[d].effects = call[d].effects
    BY <1>0, <1>5 DEF Tick, CallState
  <2> QED
    BY <1>0, <1>5, <2>1 DEF Tick, EffectInv
<1>6. CASE Reset \/ Weather \/ UNCHANGED vars
  BY <1>0, <1>6 DEF Reset, Weather, vars, EffectInv
<1> QED
  BY <1>1, <1>2, <1>3, <1>4, <1>5, <1>6 DEF Next

\* A public post and any other write that cannot be repeated safely is carried
\* out at most once per call, even when its answer is lost.
THEOREM WritesOnce == Spec => []AtMostOnce
<1>1. Init /\ TypeOK => EffectInv
  BY DEF Init, EffectInv, Idle, InFlight
<1>2. EffectInv => AtMostOnce
  BY DEF EffectInv, AtMostOnce
<1> QED
  BY <1>1, <1>2, EffectStep, TypeCorrect, PTL DEF Spec

-----------------------------------------------------------------------------
(* One probe at a time, and the promise of the breaker.                     *)

\* While the circuit is half-open, an attempt in flight is the probe.
LEMMA OnlyTheProbe ==
    ASSUME ShortTimeouts, SingleInv, State(breaker) = "half_open",
           NEW c \in Caller, InFlight(c)
    PROVE  breaker.probing /\ c = prober
<1>1. breaker.opened /\ breaker.age >= Cooldown /\ breaker.age \in Nat
  BY ToolAssumption DEF State, SingleInv, ProbeInv, TypeOK, BreakerState
<1>2. call[c].age <= tool.timeout /\ call[c].age \in Nat /\ tool.timeout < Cooldown
  BY MaxAttemptsType DEF SingleInv, ProbeInv, TypeOK, CallState, ShortTimeouts
<1>3. ~(call[c].age >= breaker.age)
  BY <1>1, <1>2, ToolAssumption, MaxAttemptsType DEF SingleInv, ProbeInv, TypeOK
<1> QED
  BY <1>1, <1>3 DEF SingleInv, OthersAreOlder

LEMMA SingleStep ==
    ASSUME ShortTimeouts
    PROVE  SingleInv /\ [Next]_vars => SingleInv'
<1> SUFFICES ASSUME SingleInv, [Next]_vars PROVE OthersAreOlder'
  BY ProbeStep DEF SingleInv
<1> USE DEF InFlight
<1>0. /\ breaker \in BreakerState /\ breaker' \in BreakerState
      /\ call \in [Caller -> CallState] /\ ProbeInv
  BY ProbeStep DEF SingleInv, ProbeInv, TypeOK
<1>1. ASSUME NEW c \in Caller, Refuse(c) PROVE OthersAreOlder'
  BY <1>0, <1>1 DEF Refuse, Idle, SingleInv, OthersAreOlder
<1>2. ASSUME NEW c \in Caller, Start(c) PROVE OthersAreOlder'
  <2>1. CASE State(breaker) = "half_open"
    <3>1. \A d \in Caller : ~call[d].running
      BY <1>2, <2>1, OnlyTheProbe DEF Start, Allowed
    <3>2. breaker'.probing /\ prober' = c
      BY <1>0, <1>2, <2>1 DEF Start, Asked, BreakerState
    <3>3. \A d \in Caller : call'[d].running => d = c
      BY <1>0, <1>2, <3>1 DEF Start
    <3> QED
      BY <3>2, <3>3 DEF OthersAreOlder
  <2>2. CASE State(breaker) # "half_open"
    <3>1. ~breaker.opened
      BY <1>2, <2>2 DEF Start, Allowed, State
    <3>2. ~breaker'.opened
      BY <1>0, <1>2, <3>1 DEF Start, Asked, BreakerState
    <3> QED
      BY <3>2 DEF OthersAreOlder
  <2> QED
    BY <2>1, <2>2
<1>3. ASSUME NEW c \in Caller, AttemptEnds(c) PROVE OthersAreOlder'
  <2>1. breaker'.age = 0
    BY <1>0, <1>3, Told DEF AttemptEnds, ProbeInv
  <2>2. \A d \in Caller : call'[d].age \in Nat
    BY <1>0, TypeStep, MaxAttemptsType DEF ProbeInv, TypeOK, CallState
  <2> QED
    BY <2>1, <2>2 DEF OthersAreOlder
<1>4. ASSUME NEW c \in Caller, Cancel(c) PROVE OthersAreOlder'
  <2>1. /\ \A d \in Caller : d # c => call'[d] = call[d]
        /\ ~call'[c].running
    BY <1>0, <1>4 DEF Cancel, Idle
  <2>2. breaker'.opened = breaker.opened /\ breaker'.age = breaker.age
    BY <1>0, <1>4 DEF Cancel, Abandon, BreakerState
  <2>3. CASE breaker.probing
    <3>1. breaker.opened /\ breaker.age = Cooldown
      BY <1>0, <2>3 DEF ProbeInv, ClosedIsQuiet, ProbesAfterCooldown
    <3>2. State(breaker) = "half_open"
      BY <3>1, ToolAssumption DEF State
    <3>3. \A d \in Caller : call[d].running => d = c
      BY <1>4, <3>2, OnlyTheProbe DEF Cancel
    <3> QED
      BY <2>1, <3>3 DEF OthersAreOlder
  <2>4. CASE ~breaker.probing
    BY <1>4, <2>1, <2>2, <2>4 DEF Cancel, SingleInv, OthersAreOlder
  <2> QED
    BY <2>3, <2>4
<1>5. CASE Reset
  BY <1>5 DEF Reset, FreshState, OthersAreOlder
<1>6. CASE Tick
  <2>1. /\ breaker'.opened = breaker.opened
        /\ breaker'.probing = breaker.probing
        /\ prober' = prober
        /\ breaker'.age = IF breaker.opened /\ breaker.age < Cooldown
                          THEN breaker.age + 1 ELSE breaker.age
    BY <1>0, <1>6 DEF Tick, Older, BreakerState
  <2>2. \A d \in Caller : /\ call'[d].running = call[d].running
                          /\ call[d].running => call'[d].age = call[d].age + 1
    BY <1>0, <1>6 DEF Tick, CallState
  <2>3. breaker.age \in Nat /\ \A d \in Caller : call[d].age \in Nat
    BY <1>0, ToolAssumption, MaxAttemptsType DEF BreakerState, CallState, ProbeInv, TypeOK
  <2> QED
    BY <2>1, <2>2, <2>3, ToolAssumption DEF SingleInv, OthersAreOlder
<1>7. CASE Weather \/ UNCHANGED vars
  BY <1>7 DEF Weather, vars, SingleInv, OthersAreOlder
<1> QED
  BY <1>1, <1>2, <1>3, <1>4, <1>5, <1>6, <1>7 DEF Next

LEMMA SingleInvariant ==
    ASSUME ShortTimeouts
    PROVE  Spec => []SingleInv
<1>1. Init => OthersAreOlder
  BY DEF Init, FreshState, OthersAreOlder
<1>2. OthersAreOlder /\ ProbeInv => SingleInv
  BY DEF SingleInv
<1> QED
  BY <1>1, <1>2, SingleStep, ProbeInvariant, PTL DEF Spec

\* Half-open lets exactly one call through, as long as no attempt can outlive
\* the cooldown.
THEOREM OneProbeAtATime ==
    ASSUME ShortTimeouts
    PROVE  Spec => []OneProbe
<1>1. SingleInv => OneProbe
  BY OnlyTheProbe DEF OneProbe
<1> QED
  BY <1>1, SingleInvariant, PTL

\* The calls of the registry, with all their clocks, windows and flags, behave
\* as the three states of the breaker's documentation say.
THEOREM RegistryKeepsPromise ==
    ASSUME ShortTimeouts
    PROVE  Spec => KeepsPromise
<1> USE DEF InFlight
<1> DEFINE Out == {c \in Caller : InFlight(c)}
<1>1. Init => Promise!Init
  BY DEF Init, FreshState, State, Idle, Promise!Init
<1>2. ASSUME SingleInv, SingleInv', [Next]_vars
      PROVE  [Promise!Next]_Promise!vars
  <2>0. /\ breaker \in BreakerState /\ breaker' \in BreakerState
        /\ call \in [Caller -> CallState] /\ ProbeInv
    BY <1>2 DEF SingleInv, ProbeInv, TypeOK
  <2>1. ASSUME NEW c \in Caller, Refuse(c) PROVE UNCHANGED Promise!vars
    BY <2>0, <2>1 DEF Refuse, Idle, Promise!vars
  <2>2. ASSUME NEW c \in Caller, Start(c) PROVE Promise!Begin(c)
    <3>1. State(breaker') = State(breaker)
      BY <2>0, <2>2 DEF Start, Asked, State, BreakerState
    <3>2. c \notin Out /\ Out' = Out \cup {c}
      BY <2>0, <2>2 DEF Start
    <3>3. State(breaker) = "half_open" => Out = {}
      BY <1>2, <2>2, OnlyTheProbe DEF Start, Allowed
    <3>4. State(breaker) \in {"closed", "half_open"}
      BY <2>2 DEF Start, Allowed
    <3> QED
      BY <3>1, <3>2, <3>3, <3>4 DEF Promise!Begin
  <2>3. ASSUME NEW c \in Caller, AttemptEnds(c)
        PROVE  Promise!End(c) \/ Promise!Again(c)
    <3>1. PICK o \in Possible : /\ breaker' = BreakerAfter(o)
                                /\ call' = [call EXCEPT ![c] = CallAfter(c, o)]
      BY <2>3 DEF AttemptEnds
    <3>2. c \in Out /\ State(breaker') \in {"closed", "open"}
      BY <2>3, <2>0, <3>1, Told, ToolAssumption DEF AttemptEnds, State, ProbeInv
    <3>3. CASE GoesOn(c, o)
      <4>1. State(breaker') = "closed"
        BY <2>0, <3>1, <3>2, <3>3, Told DEF GoesOn, Allowed, ProbeInv
      <4>2. call'[c].running
        BY <2>0, <3>1, <3>2, <3>3 DEF CallAfter, CallState
      <4>3. Out' = Out
        BY <2>0, <3>1, <3>2, <4>2
      <4> QED
        BY <3>2, <4>1, <4>3 DEF Promise!Again
    <3>4. CASE ~GoesOn(c, o)
      <4>1. ~call'[c].running
        BY <2>0, <3>1, <3>4 DEF CallAfter, Idle
      <4>2. Out' = Out \ {c}
        BY <2>0, <3>1, <4>1
      <4> QED
        BY <3>2, <4>2 DEF Promise!End
    <3> QED
      BY <3>3, <3>4
  <2>4. ASSUME NEW c \in Caller, Cancel(c) PROVE Promise!End(c)
    <3>1. State(breaker') = State(breaker)
      BY <2>0, <2>4 DEF Cancel, Abandon, State, BreakerState
    <3>2. c \in Out /\ Out' = Out \ {c}
      BY <2>0, <2>4 DEF Cancel, Idle
    <3> QED
      BY <3>1, <3>2 DEF Promise!End
  <2>5. CASE Reset
    BY <2>5 DEF Reset, FreshState, State, Promise!Forget, Promise!Next
  <2>6. CASE Tick
    <3>1. Out' = Out
      BY <2>0, <2>6 DEF Tick, CallState
    <3>2. /\ breaker'.opened = breaker.opened
          /\ breaker'.age = IF breaker.opened /\ breaker.age < Cooldown
                            THEN breaker.age + 1 ELSE breaker.age
      BY <2>0, <2>6 DEF Tick, Older, BreakerState
    <3>3. CASE State(breaker') = State(breaker)
      BY <3>1, <3>3 DEF Promise!vars
    <3>4. CASE State(breaker') # State(breaker)
      <4>1. /\ State(breaker) = "open" /\ State(breaker') = "half_open"
            /\ breaker.age + 1 = Cooldown /\ breaker.age # Cooldown
        BY <2>0, <3>2, <3>4, ToolAssumption DEF State, BreakerState
      <4>2. ~breaker.probing
        BY <2>0, <4>1 DEF ProbeInv, ProbesAfterCooldown
      <4>3. ASSUME NEW c \in Caller, InFlight(c) PROVE FALSE
        <5>1. call[c].age >= breaker.age
          BY <1>2, <4>1, <4>2, <4>3 DEF SingleInv, OthersAreOlder, State
        <5>2. call[c].age < tool.timeout /\ tool.timeout < Cooldown
          BY <1>2, <2>6, <4>3 DEF Tick, SingleInv, ProbeInv, TypeOK, ShortTimeouts
        <5> QED
          BY <1>2, <2>0, <4>1, <5>1, <5>2, ToolAssumption, MaxAttemptsType
            DEF CallState, BreakerState, SingleInv, ProbeInv, TypeOK
      <4> QED
        BY <3>1, <4>1, <4>3 DEF Promise!CooledDown, Promise!Next
    <3> QED
      BY <3>3, <3>4
  <2>7. CASE Weather \/ UNCHANGED vars
    BY <2>7 DEF Weather, vars, Promise!vars
  <2> QED
    BY <1>2, <2>1, <2>2, <2>3, <2>4, <2>5, <2>6, <2>7 DEF Next, Promise!Next
<1> QED
  BY <1>1, <1>2, SingleInvariant, PTL DEF Spec, KeepsPromise, Promise!Spec
=============================================================================
