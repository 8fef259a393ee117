------------------------------ MODULE IntakeProofs ------------------------------
(***************************************************************************)
(* For any texts, models, answers, budgets and bounds: what a case may pay, *)
(* what the cache serves, that a reply which may go out alone was verified, *)
(* and what becomes of a comment about the law.                            *)
(***************************************************************************)
EXTENDS Intake, SequenceTheorems, TLAPS

-----------------------------------------------------------------------------
(* The calls of a case, and what they cost.                                 *)

Most == AttemptsPerCall * MaxCharge

\* The attempts a call has made at most.
Made(c) == (IF c.fallback = None THEN 1 + SchemaRetries ELSE 0) + c.retries

Asking ==
    /\ outcome = None
    /\ spent < Budget
    /\ paid = spent + call.cost
    /\ call.cost <= Made(call) * MaxCharge

HasOutcome ==
    /\ paid = spent + outcome.cost
    /\ outcome.cost > 0 => spent < Budget /\ outcome.cost <= Most

CallInv ==
    /\ CallTypeOK
    /\ spent > 0 => spent < Budget + Most
    /\ call # None => Asking
    /\ call = None /\ outcome # None => HasOutcome
    /\ Idle => paid = spent

LEMMA Times ==
    ASSUME NEW a \in Nat, NEW b \in Nat, NEW m \in Nat
    PROVE  /\ a * m \in Nat
           /\ a <= b => a * m <= b * m
           /\ (a + 1) * m = a * m + m
<1>1. a * m \in Nat /\ (a + 1) * m = a * m + m
  OBVIOUS
<1>2. ASSUME a <= b PROVE a * m <= b * m
  <2>1. PICK d \in Nat : b = a + d
    <3>1. b - a \in Nat /\ b = a + (b - a)
      BY <1>2
    <3> QED
      BY <3>1
  <2>2. b * m = a * m + d * m /\ d * m >= 0
    BY <2>1
  <2> QED
    BY <2>2
<1> QED
  BY <1>1, <1>2

LEMMA MadeIsBounded ==
    ASSUME NEW c \in Call
    PROVE  /\ Made(c) \in Nat
           /\ Made(c) + 1 <= AttemptsPerCall
           /\ c.fallback # None => Made(c) <= SchemaRetries
BY CallAssumption DEF Call, Made, AttemptsPerCall

LEMMA AskedAgain ==
    ASSUME NEW c \in Call, c.retries < SchemaRetries,
           NEW d, d = [c EXCEPT !.retries = @ + 1]
    PROVE  d \in Call /\ d.cost = c.cost /\ Made(d) = Made(c) + 1
<1>1. d \in Call
  BY CallAssumption DEF Call
<1>2. d.cost = c.cost /\ d.retries = c.retries + 1 /\ d.fallback = c.fallback
  BY DEF Call
<1>3. c.retries \in Nat
  BY CallAssumption DEF Call
<1> QED
  BY <1>1, <1>2, <1>3, CallAssumption DEF Made

LEMMA CallInvAtFirst == CallInit => CallInv
BY CallAssumption DEF CallInit, CallInv, CallTypeOK, Idle

LEMMA StructuredKeeps ==
    ASSUME CallInv, Idle, NEW stage \in Stage, NEW r \in Tier \X Tier,
           NEW isOn \in BOOLEAN, Structured(stage, r, isOn)
    PROVE  CallInv'
<1>1. NewCall(stage, r) \in Call /\ NewCall(stage, r).cost = 0
  BY CallAssumption DEF NewCall, Call
<1>2. \A by \in NoModel : Settled(stage, by, 0) \in Outcome /\ Settled(stage, by, 0).cost = 0
  BY DEF Settled, Outcome
<1>3. spent \in Nat /\ paid \in Nat /\ paid = spent /\ UNCHANGED <<spent, paid>>
  BY DEF CallInv, CallTypeOK, Structured
<1>4. CASE call' = NewCall(stage, r) /\ outcome' = outcome /\ spent < Budget
  <2>1. Made(NewCall(stage, r)) * MaxCharge \in Nat
    BY <1>1, MadeIsBounded, Times, CallAssumption
  <2> QED
    BY <1>1, <1>3, <1>4, <2>1, CallAssumption DEF CallInv, CallTypeOK, Asking, Idle
<1>5. CASE /\ \E by \in NoModel : outcome' = Settled(stage, by, 0)
           /\ UNCHANGED call
  BY <1>2, <1>3, <1>5, CallAssumption DEF CallInv, CallTypeOK, HasOutcome, Idle
<1>6. \/ call' = NewCall(stage, r) /\ outcome' = outcome /\ spent < Budget
      \/ outcome' = Settled(stage, "over_budget", 0) /\ UNCHANGED call
      \/ outcome' = Settled(stage, "offline", 0) /\ UNCHANGED call
  <2>1. CASE spent >= Budget
    BY <2>1 DEF Structured
  <2>2. CASE spent < Budget /\ ~isOn
    BY <1>3, <2>2, CallAssumption DEF Structured
  <2>3. CASE spent < Budget /\ isOn
    BY <1>3, <2>3, CallAssumption DEF Structured
  <2> QED
    BY <1>3, <2>1, <2>2, <2>3, CallAssumption
<1> QED
  BY <1>4, <1>5, <1>6 DEF NoModel

\* A model is given up by a call that has paid for what it made.
LEMMA GiveUpKeeps ==
    ASSUME CallInv, NEW c \in Call, spent < Budget, outcome = None,
           c.cost <= (Made(c) + 1) * MaxCharge,
           c.fallback # None => c.retries <= SchemaRetries,
           GiveUp(c), UNCHANGED spent, paid' = spent + c.cost
    PROVE  CallInv'
<1>1. spent \in Nat /\ c.cost \in Nat /\ paid' \in Nat
  BY DEF CallInv, CallTypeOK, Call
<1>2. CASE c.fallback # None
  <2> DEFINE d == [c EXCEPT !.model = c.fallback, !.fallback = None, !.retries = 0]
  <2>1. call' = d /\ outcome' = None
    BY <1>2 DEF GiveUp
  <2>2. d \in Call /\ d.cost = c.cost /\ Made(d) = 1 + SchemaRetries
    <3>1. c.fallback \in Tier
      BY <1>2 DEF Call
    <3>2. d \in Call
      <4> DEFINE e == [c EXCEPT !.model = c.fallback]
                 f == [e EXCEPT !.fallback = None]
      <4>1. e \in Call
        BY <3>1 DEF Call
      <4>2. f \in Call
        <5> HIDE DEF e
        <5> QED
          BY <4>1 DEF Call
      <4>3. [f EXCEPT !.retries = 0] \in Call
        <5> HIDE DEF f
        <5> QED
          BY <4>2, CallAssumption DEF Call
      <4> QED
        BY <4>3
    <3>3. d.cost = c.cost /\ d.fallback = None /\ d.retries = 0
      BY DEF Call
    <3> QED
      BY <3>2, <3>3, CallAssumption DEF Made
  <2>3. Made(c) + 1 <= Made(d) /\ Made(c) + 1 \in Nat /\ Made(d) \in Nat
    <3>1. Made(c) \in Nat /\ Made(c) <= SchemaRetries
      BY <1>2, MadeIsBounded
    <3> QED
      BY <2>2, <3>1, CallAssumption
  <2>4. (Made(c) + 1) * MaxCharge <= Made(d) * MaxCharge
    BY <2>3, Times, CallAssumption
  <2>5. d.cost <= Made(d) * MaxCharge
    <3>1. (Made(c) + 1) * MaxCharge \in Nat /\ Made(d) * MaxCharge \in Nat
      BY <2>3, Times, CallAssumption
    <3> QED
      BY <1>1, <2>2, <2>4, <3>1
  <2> HIDE DEF d
  <2>6. d # None
    BY <2>2, CallAssumption
  <2>7. Asking'
    BY <1>1, <2>1, <2>2, <2>5 DEF Asking, Made
  <2> QED
    BY <1>1, <2>1, <2>2, <2>6, <2>7 DEF CallInv, CallTypeOK, Idle, Most
<1>3. CASE c.fallback = None
  <2> DEFINE o == Settled(c.stage, "degraded", c.cost)
  <2>1. call' = None /\ outcome' = o
    BY <1>3 DEF GiveUp
  <2>2. o \in Outcome /\ o.cost = c.cost
    BY <1>1 DEF Settled, Outcome, Call, NoModel
  <2>3. c.cost <= Most
    <3>1. Made(c) + 1 <= AttemptsPerCall /\ Made(c) + 1 \in Nat /\ AttemptsPerCall \in Nat
      <4>1. Made(c) \in Nat /\ Made(c) + 1 <= AttemptsPerCall
        BY MadeIsBounded
      <4> QED
        BY <4>1, CallAssumption DEF AttemptsPerCall
    <3>2. (Made(c) + 1) * MaxCharge <= Most /\ (Made(c) + 1) * MaxCharge \in Nat /\ Most \in Nat
      BY <3>1, Times, CallAssumption DEF Most
    <3> QED
      BY <1>1, <3>2
  <2> HIDE DEF o
  <2>4. o # None
    BY <2>2, CallAssumption
  <2>5. HasOutcome'
    BY <1>1, <2>1, <2>2, <2>3 DEF HasOutcome, Most, AttemptsPerCall
  <2> QED
    BY <1>1, <2>1, <2>2, <2>4, <2>5 DEF CallInv, CallTypeOK, Idle, Most, AttemptsPerCall
<1> QED
  BY <1>2, <1>3

LEMMA AttemptKeeps ==
    ASSUME CallInv, Attempt
    PROVE  CallInv'
<1>1. call \in Call /\ call # None /\ Asking
  BY DEF CallInv, CallTypeOK, Attempt, AttemptFails, AttemptMisshapen, AttemptAnswered
<1>2. /\ spent \in Nat /\ paid \in Nat /\ call.cost \in Nat
      /\ Made(call) \in Nat /\ Made(call) + 1 <= AttemptsPerCall
      /\ Made(call) * MaxCharge \in Nat
      /\ (Made(call) + 1) * MaxCharge = Made(call) * MaxCharge + MaxCharge
  BY <1>1, MadeIsBounded, Times, CallAssumption DEF CallInv, CallTypeOK, Call
<1>3. CASE AttemptFails
  <2>1. call.cost <= (Made(call) + 1) * MaxCharge
    BY <1>1, <1>2, CallAssumption DEF Asking
  <2> QED
    BY <1>1, <1>2, <1>3, <2>1, GiveUpKeeps DEF AttemptFails, Asking, Call
<1>4. ASSUME NEW cost \in 0 .. MaxCharge, AttemptMisshapen(cost)
      PROVE  CallInv'
  <2> DEFINE c == [call EXCEPT !.cost = @ + cost]
  <2>1. /\ c \in Call /\ c.cost = call.cost + cost /\ Made(c) = Made(call)
        /\ c.retries = call.retries /\ c.retries \in 0 .. SchemaRetries
    BY <1>1, <1>2, <1>4, CallAssumption DEF Call, Made
  <2>2. c.cost <= (Made(c) + 1) * MaxCharge
    BY <1>1, <1>2, <1>4, <2>1, CallAssumption DEF Asking
  <2>3. paid' = spent + c.cost /\ UNCHANGED spent
    BY <1>1, <1>2, <1>4, <2>1 DEF AttemptMisshapen, Asking
  <2>4. CASE c.retries < SchemaRetries
    <3> DEFINE d == [c EXCEPT !.retries = @ + 1]
    <3>1. call' = d /\ outcome' = None
      BY <1>1, <1>4, <2>4 DEF AttemptMisshapen, Asking
    <3>2. d \in Call /\ d.cost = c.cost /\ Made(d) = Made(c) + 1
      <4> HIDE DEF c
      <4> QED
        BY <2>1, <2>4, AskedAgain
    <3> HIDE DEF c, d
    <3>3. d # None /\ spent' \in Nat /\ paid' \in Nat
      BY <1>2, <2>1, <2>3, <3>2, CallAssumption DEF Call
    <3>4. Asking'
      BY <1>1, <2>2, <2>3, <3>1, <3>2 DEF Asking, Made
    <3> QED
      BY <2>3, <3>1, <3>2, <3>3, <3>4 DEF CallInv, CallTypeOK, Idle, Most
  <2>5. CASE ~(c.retries < SchemaRetries)
    <3>1. GiveUp(c)
      BY <1>4, <2>5 DEF AttemptMisshapen
    <3> HIDE DEF c
    <3> QED
      BY <1>1, <2>1, <2>2, <2>3, <3>1, GiveUpKeeps, CallAssumption DEF Asking
  <2> QED
    BY <2>4, <2>5
<1>5. ASSUME NEW cost \in 0 .. MaxCharge, AttemptAnswered(cost)
      PROVE  CallInv'
  <2> DEFINE o == Settled(call.stage, call.model, call.cost + cost)
  <2>1. call' = None /\ outcome' = o /\ paid' = paid + cost /\ UNCHANGED spent
    BY <1>5 DEF AttemptAnswered
  <2>2. o \in Outcome /\ o.cost = call.cost + cost /\ cost \in Nat /\ cost <= MaxCharge
    BY <1>1, <1>2, <1>5, CallAssumption DEF Settled, Outcome, Call
  <2>3. o.cost <= Most
    <3>1. (Made(call) + 1) * MaxCharge <= Most /\ Most \in Nat
      BY <1>2, Times, CallAssumption DEF Most, AttemptsPerCall
    <3> QED
      BY <1>1, <1>2, <2>2, <3>1, CallAssumption DEF Asking
  <2> HIDE DEF o
  <2>4. o # None
    BY <2>2, CallAssumption
  <2>5. HasOutcome'
    BY <1>1, <1>2, <2>1, <2>2, <2>3 DEF HasOutcome, Asking, Most, AttemptsPerCall
  <2> QED
    BY <1>2, <2>1, <2>2, <2>4, <2>5 DEF CallInv, CallTypeOK, Idle, Most, AttemptsPerCall
<1> QED
  BY <1>3, <1>4, <1>5 DEF Attempt

LEMMA UsedKeeps ==
    ASSUME CallInv, NEW stage, Used(stage)
    PROVE  CallInv'
<1>1. outcome \in Outcome /\ call = None /\ HasOutcome /\ spent \in Nat /\ paid \in Nat
  BY DEF CallInv, CallTypeOK, Used, Asking
<1>2. outcome.cost \in Nat /\ Most \in Nat
  BY <1>1, Times, CallAssumption DEF Outcome, Most, AttemptsPerCall
<1>3. spent' = spent + outcome.cost /\ call' = None /\ outcome' = None /\ paid' = paid
  BY <1>1 DEF Used
<1>4. spent' > 0 => spent' < Budget + Most
  BY <1>1, <1>2, <1>3, CallAssumption DEF CallInv, HasOutcome
<1> QED
  BY <1>1, <1>2, <1>3, <1>4 DEF CallInv, CallTypeOK, Idle, HasOutcome, Most, AttemptsPerCall

-----------------------------------------------------------------------------
(* How the case's steps use them.                                           *)

LEMMA RouteIsTwoModels ==
    ASSUME NEW stage \in Stage, NEW severity, NEW revision, NEW inj
    PROVE  Route(stage, severity, revision, inj) \in Tier \X Tier
<1>1. Route(stage, severity, revision, inj) \in
        {<<TierTriage, TierDraft>>, <<TierDraft, TierReasoning>>, <<TierReasoning, TierDraft>>}
  <2>1. CASE stage \in {"triage", "triage_summary", "judge"}
    BY <2>1 DEF Route
  <2>2. CASE stage \in {"ground_check", "plan"}
    BY <2>2 DEF Route
  <2>3. CASE stage = "draft"
    BY <2>3 DEF Route
  <2> QED
    BY <2>1, <2>2, <2>3 DEF Stage
<1> QED
  BY <1>1 DEF Tier

Given == online \in BOOLEAN /\ text \in Text

LEMMA GivenStays ==
    ASSUME [Next]_vars
    PROVE  UNCHANGED <<online, text>>
BY DEF vars, Next, Step, Triage, TriageByLLM, TriageByDecision, TriageAnswered, SummaryAnswered,
       Judge, JudgeAnswered, Prioritise, Draft, DraftAnswered, GroundCheck, GroundCheckAnswered,
       Plan, PlanAnswered, Waits, OtherTriage, Tick, Asks, ElseUnchanged

LEMMA CallSteps ==
    ASSUME [Next]_vars
    PROVE  \/ UNCHANGED callVars
           \/ \E stage \in Stage, r \in Tier \X Tier : Idle /\ Structured(stage, r, online)
           \/ \E stage \in Stage : Used(stage)
           \/ Attempt
<1>1. ASSUME NEW stage \in Stage, Idle, Asks(stage)
      PROVE  \E st \in Stage, r \in Tier \X Tier : Idle /\ Structured(st, r, online)
  BY <1>1, RouteIsTwoModels DEF Asks
<1>2. {"triage", "triage_summary", "judge", "draft", "ground_check", "plan"} \subseteq Stage
  BY DEF Stage
<1>3. CASE Triage
  <2>1. Route("triage", 1, 0, FALSE) \in Tier \X Tier
        /\ Route("triage_summary", 1, 0, FALSE) \in Tier \X Tier
    BY <1>2, RouteIsTwoModels
  <2> QED
    BY <1>2, <1>3, <2>1 DEF Triage, TriageByLLM, TriageByDecision
<1>4. CASE TriageAnswered \/ SummaryAnswered \/ JudgeAnswered \/ DraftAnswered
           \/ GroundCheckAnswered \/ PlanAnswered
  BY <1>2, <1>4 DEF TriageAnswered, SummaryAnswered, JudgeAnswered, DraftAnswered,
     GroundCheckAnswered, PlanAnswered
<1>5. CASE Judge \/ Draft \/ GroundCheck \/ Plan
  BY <1>1, <1>2, <1>5 DEF Judge, Draft, GroundCheck, Plan
<1>6. CASE Waits
  BY <1>6 DEF Waits
<1>7. CASE Prioritise \/ OtherTriage \/ Tick \/ UNCHANGED vars
  BY <1>7 DEF Prioritise, OtherTriage, Tick, vars, callVars
<1> QED
  BY <1>3, <1>4, <1>5, <1>6, <1>7 DEF Next, Step

LEMMA CallInvKept ==
    ASSUME CallInv, Given, [Next]_vars
    PROVE  CallInv'
<1>1. CASE UNCHANGED callVars
  BY <1>1 DEF CallInv, CallTypeOK, Asking, HasOutcome, Idle, Made, Most, AttemptsPerCall, callVars
<1>2. ASSUME NEW stage \in Stage, NEW r \in Tier \X Tier, Idle, Structured(stage, r, online)
      PROVE  CallInv'
  BY <1>2, StructuredKeeps DEF Given
<1>3. ASSUME NEW stage \in Stage, Used(stage) PROVE CallInv'
  BY <1>3, UsedKeeps
<1>4. CASE Attempt
  BY <1>4, AttemptKeeps
<1> QED
  BY <1>1, <1>2, <1>3, <1>4, CallSteps

\* structured(): at every moment a call under way has made no more attempts than
\* its retries and its one fallback leave it, and has paid the most for each.
THEOREM CallsAreBounded == Spec => [](Given /\ CallInv)
<1>1. Init => Given /\ CallInv
  BY CallInvAtFirst DEF Init, Given
<1>2. Given /\ CallInv /\ [Next]_vars => (Given /\ CallInv)'
  BY CallInvKept, GivenStays DEF Given
<1> QED
  BY <1>1, <1>2, PTL DEF Spec

\* structured(), _spent: a case has at every moment paid less than its ceiling and
\* the attempts of one call more.
THEOREM PaidWithinACall == Spec => []PaidWithinOneCall
<1>1. Given /\ CallInv => PaidWithinOneCall
  <2> SUFFICES ASSUME CallInv, paid > 0
               PROVE  paid < Budget + Most
    BY DEF PaidWithinOneCall, Most
  <2>1. spent \in Nat /\ paid \in Nat /\ Most \in Nat
    BY Times, CallAssumption DEF CallInv, CallTypeOK, Most, AttemptsPerCall
  <2>2. CASE call # None
    <3>1. call \in Call /\ Asking
      BY <2>2 DEF CallInv, CallTypeOK
    <3>2. /\ Made(call) \in Nat /\ AttemptsPerCall \in Nat
          /\ Made(call) < AttemptsPerCall
      <4>1. Made(call) \in Nat /\ Made(call) + 1 <= AttemptsPerCall
        BY <3>1, MadeIsBounded
      <4> QED
        BY <4>1, CallAssumption DEF AttemptsPerCall
    <3>3. Made(call) * MaxCharge <= Most /\ Made(call) * MaxCharge \in Nat
      BY <3>2, Times, CallAssumption DEF Most
    <3> QED
      BY <2>1, <3>1, <3>3, CallAssumption DEF Asking, Call
  <2>3. CASE call = None /\ outcome # None
    <3>1. HasOutcome /\ outcome.cost \in Nat
      BY <2>3 DEF CallInv, CallTypeOK, Outcome
    <3> QED
      BY <2>1, <3>1, CallAssumption DEF HasOutcome, CallInv
  <2>4. CASE Idle
    BY <2>1, <2>4 DEF CallInv
  <2> QED
    BY <2>2, <2>3, <2>4 DEF Idle
<1> QED
  BY <1>1, CallsAreBounded, PTL

-----------------------------------------------------------------------------
(* The verdict on the draft.                                                *)

\* No stage takes its stub while there is a key.
NoStub == online /\ outcome # None => outcome.by # "offline"

\* A verdict that lets a reply pass is a model's on the draft as it stands.
Verdicts ==
    next \in {"plan", "review_gate"} /\ online /\ grounding.grounded => verified

LEMMA NoStubKept ==
    ASSUME CallInv, Given, NoStub, [Next]_vars
    PROVE  NoStub'
<1> SUFFICES ASSUME online', outcome' # None
             PROVE  outcome'.by # "offline"
  BY DEF NoStub
<1>1. online = online' /\ online
  BY GivenStays
<1>2. CASE UNCHANGED callVars
  BY <1>1, <1>2 DEF NoStub, callVars
<1>3. ASSUME NEW stage \in Stage, NEW r \in Tier \X Tier, Idle, Structured(stage, r, online)
      PROVE  outcome'.by # "offline"
  <2>1. spent \in Nat
    BY DEF CallInv, CallTypeOK
  <2>2. CASE spent >= Budget
    BY <1>3, <2>1, <2>2, CallAssumption DEF Structured, Settled
  <2>3. CASE spent < Budget
    BY <1>1, <1>3, <2>1, <2>3, CallAssumption DEF Structured, Idle
  <2> QED
    BY <2>1, <2>2, <2>3, CallAssumption
<1>4. ASSUME NEW stage \in Stage, Used(stage) PROVE outcome'.by # "offline"
  BY <1>4 DEF Used
<1>5. CASE Attempt
  <2>1. call \in Call /\ outcome = None
    BY <1>5 DEF CallInv, CallTypeOK, Attempt, AttemptFails, AttemptMisshapen, AttemptAnswered,
       Asking
  <2>2. ASSUME NEW c, GiveUp(c) PROVE outcome'.by # "offline"
    BY <2>1, <2>2 DEF GiveUp, Settled
  <2>3. CASE AttemptFails
    BY <2>2, <2>3 DEF AttemptFails
  <2>4. ASSUME NEW cost \in 0 .. MaxCharge, AttemptMisshapen(cost)
        PROVE  outcome'.by # "offline"
    BY <2>1, <2>2, <2>4 DEF AttemptMisshapen
  <2>5. ASSUME NEW cost \in 0 .. MaxCharge, AttemptAnswered(cost)
        PROVE  outcome'.by # "offline"
    <3>1. outcome'.by = call.model
      BY <2>5 DEF AttemptAnswered, Settled
    <3>2. call.model \in Tier /\ "offline" \in NoModel
      BY <2>1 DEF Call, NoModel
    <3> QED
      BY <3>1, <3>2, CallAssumption
  <2> QED
    BY <1>5, <2>3, <2>4, <2>5 DEF Attempt
<1> QED
  BY <1>2, <1>3, <1>4, <1>5, CallSteps

LEMMA VerdictsKept ==
    ASSUME CallInv, Given, NoStub, Verdicts, [Next]_vars
    PROVE  Verdicts'
<1>1. CASE GroundCheckAnswered
  <2>1. PICK says \in BOOLEAN : /\ grounding' = Verdict(says)
                                /\ verified' = (Answered(outcome) /\ says)
    BY <1>1 DEF GroundCheckAnswered
  <2>2. outcome # None /\ outcome \in Outcome
    BY <1>1 DEF GroundCheckAnswered, Used, CallInv, CallTypeOK
  <2>3. ASSUME online, grounding'.grounded PROVE verified'
    <3>1. ~Degraded(outcome) /\ (Answered(outcome) => says)
      BY <2>1, <2>3 DEF Verdict
    <3>2. outcome.by # "offline" /\ outcome.by \in Tier \cup NoModel
      BY <2>2, <2>3 DEF NoStub, Outcome
    <3>3. Answered(outcome)
      BY <3>1, <3>2 DEF Degraded, Answered, NoModel
    <3> QED
      BY <2>1, <3>1, <3>3
  <2> QED
    BY <2>3, GivenStays DEF Verdicts
<1>2. CASE Triage \/ TriageAnswered \/ SummaryAnswered \/ Judge \/ JudgeAnswered \/ Prioritise
           \/ Draft \/ DraftAnswered \/ GroundCheck \/ OtherTriage \/ Tick
  BY <1>2 DEF Verdicts, Triage, TriageByLLM, TriageByDecision, Triaged, TriageAnswered,
     SummaryAnswered, Judge, JudgeAnswered, Prioritise, Draft, DraftAnswered, GroundCheck,
     OtherTriage, Tick, Asks
<1>3. CASE Plan \/ PlanAnswered \/ Waits \/ UNCHANGED vars
  BY <1>3 DEF Verdicts, Plan, PlanAnswered, Waits, Asks, ElseUnchanged, vars, nodeVars
<1> QED
  BY <1>1, <1>2, <1>3 DEF Next, Step

\* ground_check_node, _after_ground_check: a reply that may be posted unread was
\* verified by a model, whatever failed on the way.
THEOREM VerifiedOrRead == Spec => []OnlyVerifiedPosts
<1>1. Init => NoStub /\ Verdicts
  BY DEF Init, CallInit, NoStub, Verdicts
<1>2. Given /\ CallInv /\ NoStub /\ Verdicts /\ [Next]_vars => (NoStub /\ Verdicts)'
  BY NoStubKept, VerdictsKept
<1>3. Verdicts => OnlyVerifiedPosts
  BY DEF Verdicts, OnlyVerifiedPosts, MayPostAlone, HardRules
<1> QED
  BY <1>1, <1>2, <1>3, CallsAreBounded, PTL DEF Spec

-----------------------------------------------------------------------------
(* The cache.                                                               *)

ModelEntry == {e \in Entry : e.by \in Tier}

CacheInv ==
    /\ cache \in Seq(ModelEntry)
    /\ readFrom # None => readFrom \in ModelEntry /\ readFrom.brand = Own

LEMMA WithoutOne ==
    ASSUME NEW S, NEW s \in Seq(S), NEW i \in DOMAIN s
    PROVE  RemoveAt(s, i) \in Seq(S)
<1>1. Len(s) \in Nat /\ DOMAIN s = 1 .. Len(s) /\ \A j \in 1 .. Len(s) : s[j] \in S
  BY LenProperties, ElementOfSeq
<1>2. i \in Int /\ i - 1 \in Int /\ i + 1 \in Int /\ 1 .. i - 1 \subseteq 1 .. Len(s)
      /\ i + 1 .. Len(s) \subseteq 1 .. Len(s)
  BY <1>1
<1>3. SubSeq(s, 1, i - 1) \in Seq(S)
  BY <1>1, <1>2, SubSeqProperties
<1>4. SubSeq(s, i + 1, Len(s)) \in Seq(S)
  BY <1>1, <1>2, SubSeqProperties
<1> QED
  BY <1>3, <1>4, ConcatProperties DEF RemoveAt

LEMMA PutKeeps ==
    ASSUME cache \in Seq(ModelEntry), NEW brand \in Brand, NEW t \in Text,
           NEW answer \in TriageOf, NEW by \in Tier
    PROVE  Put(brand, t, answer, by) \in Seq(ModelEntry)
<1> DEFINE e == [brand |-> brand, text |-> t, answer |-> answer, by |-> by, age |-> 0]
           kept == IF Len(cache) >= MaxEntries THEN Tail(cache) ELSE cache
           Held(i) == kept[i].brand = brand /\ kept[i].text = t
           held == CHOOSE i \in DOMAIN kept : Held(i)
           others == IF \E i \in DOMAIN kept : Held(i) THEN RemoveAt(kept, held) ELSE kept
<1>1. e \in ModelEntry
  BY IntakeAssumption DEF ModelEntry, Entry
<1>2. kept \in Seq(ModelEntry)
  <2>1. CASE Len(cache) >= MaxEntries
    <3>1. cache # <<>>
      BY <2>1, EmptySeq, IntakeAssumption
    <3> QED
      BY <2>1, <3>1, HeadTailProperties
  <2> QED
    BY <2>1
<1>3. others \in Seq(ModelEntry)
  <2> HIDE DEF kept
  <2>1. CASE \E i \in DOMAIN kept : Held(i)
    <3>1. held \in DOMAIN kept
      BY <2>1
    <3> HIDE DEF held
    <3> QED
      BY <1>2, <2>1, <3>1, WithoutOne
  <2>2. CASE ~(\E i \in DOMAIN kept : Held(i))
    BY <1>2, <2>2
  <2> QED
    BY <2>1, <2>2
<1>4. Put(brand, t, answer, by) = Append(others, e)
  BY DEF Put
<1> HIDE DEF others, e
<1> QED
  BY <1>1, <1>3, <1>4, AppendProperties

LEMMA KeptKeeps ==
    ASSUME cache \in Seq(ModelEntry), NEW brand \in Brand, NEW t \in Text,
           NEW answer \in TriageOf, NEW by
    PROVE  Kept(brand, t, answer, by) \in Seq(ModelEntry)
BY PutKeeps DEF Kept

\* What a look into the cache finds.
LEMMA HitsAreEntries ==
    ASSUME cache \in Seq(ModelEntry), NEW brand, NEW t, NEW e \in Hits(brand, t)
    PROVE  e \in ModelEntry /\ e.brand = brand
<1>1. e \in ToSet(cache) /\ e.brand = brand
  BY DEF Hits, Exact, Near
<1>2. PICK i \in DOMAIN cache : e = cache[i]
  BY <1>1 DEF ToSet
<1> QED
  BY <1>1, <1>2, LenProperties, ElementOfSeq

LEMMA AgingKeeps ==
    ASSUME cache \in Seq(ModelEntry)
    PROVE  [i \in DOMAIN cache |-> Aged(cache[i])] \in Seq(ModelEntry)
<1>1. ASSUME NEW e \in ModelEntry PROVE Aged(e) \in ModelEntry
  <2>1. (IF e.age < TTL THEN e.age + 1 ELSE e.age) \in 0 .. TTL
    BY IntakeAssumption DEF ModelEntry, Entry
  <2> DEFINE a == IF e.age < TTL THEN e.age + 1 ELSE e.age
  <2>2. Aged(e) = [e EXCEPT !.age = a]
    BY DEF Aged
  <2> HIDE DEF a
  <2> QED
    BY <2>1, <2>2 DEF ModelEntry, Entry, a
<1>2. Len(cache) \in Nat /\ DOMAIN cache = 1 .. Len(cache)
      /\ \A i \in 1 .. Len(cache) : cache[i] \in ModelEntry
  BY LenProperties, ElementOfSeq
<1>3. [i \in 1 .. Len(cache) |-> Aged(cache[i])] \in [1 .. Len(cache) -> ModelEntry]
  BY <1>1, <1>2
<1>4. [1 .. Len(cache) -> ModelEntry] \subseteq Seq(ModelEntry)
  BY <1>2, SeqDef
<1> QED
  BY <1>2, <1>3, <1>4

LEMMA CacheInvKept ==
    ASSUME CallInv, Given, CacheInv, [Next]_vars
    PROVE  CacheInv'
<1>1. CASE Triage
  <2>1. UNCHANGED cache
    BY <1>1 DEF Triage
  <2>2. readFrom' = readFrom \/ readFrom' \in Hits(Own, text)
    BY <1>1 DEF Triage, TriageByLLM, TriageByDecision
  <2> QED
    BY <2>1, <2>2, HitsAreEntries DEF CacheInv
<1>2. CASE TriageAnswered
  <2>1. PICK answer \in (IF Answered(outcome) THEN Answer ELSE {Stub[text]}) :
           cache' = Kept(Own, text, answer, outcome.by)
    BY <1>2 DEF TriageAnswered
  <2>2. answer \in TriageOf /\ text \in Text /\ Own \in Brand
    BY <2>1, IntakeAssumption DEF Given
  <2> QED
    BY <1>2, <2>1, <2>2, KeptKeeps DEF CacheInv, TriageAnswered
<1>3. CASE OtherTriage
  <2>1. PICK brand \in Brand, t \in Elsewhere, by \in {TierTriage, TierDraft, "degraded"} :
           \E answer \in (IF by \in Tier THEN Answer ELSE {Stub[t]}) :
              cache' = Kept(brand, t, answer, by)
    BY <1>3 DEF OtherTriage
  <2>2. PICK answer \in (IF by \in Tier THEN Answer ELSE {Stub[t]}) :
           cache' = Kept(brand, t, answer, by)
    BY <2>1
  <2>3. answer \in TriageOf /\ t \in Text
    BY <2>2, IntakeAssumption
  <2> QED
    BY <1>3, <2>2, <2>3, KeptKeeps DEF CacheInv, OtherTriage
<1>4. CASE Tick
  BY <1>4, AgingKeeps DEF CacheInv, Tick
<1>5. CASE SummaryAnswered \/ Judge \/ JudgeAnswered \/ Prioritise \/ Draft \/ DraftAnswered
           \/ GroundCheck \/ GroundCheckAnswered \/ Plan \/ PlanAnswered \/ Waits
           \/ UNCHANGED vars
  <2>1. UNCHANGED <<cache, readFrom>>
    BY <1>5 DEF SummaryAnswered, Judge, JudgeAnswered, Prioritise, Draft, DraftAnswered,
       GroundCheck, GroundCheckAnswered, Plan, PlanAnswered, Waits, Asks, ElseUnchanged, vars
  <2> QED
    BY <2>1 DEF CacheInv
<1> QED
  BY <1>1, <1>2, <1>3, <1>4, <1>5 DEF Next, Step

\* ResponseCache: it only ever holds what a model answered, each under the brand
\* that asked; and the case has only read its own brand's.
THEOREM CacheIsAnswers == Spec => []CacheInv
<1>1. Init => CacheInv
  BY EmptySeq DEF Init, CacheInv
<1>2. Given /\ CallInv /\ CacheInv /\ [Next]_vars => CacheInv'
  BY CacheInvKept
<1> QED
  BY <1>1, <1>2, CallsAreBounded, PTL DEF Spec

\* llm_triage, ResponseCache: no outage and no other company comes back as a hit.
THEOREM HitsAlwaysAnswers == Spec => []HitsAreAnswers
<1>1. CacheInv => HitsAreAnswers
  <2> SUFFICES ASSUME CacheInv PROVE HitsAreAnswers
    OBVIOUS
  <2>1. \A i \in DOMAIN cache : cache[i] \in ModelEntry
    BY LenProperties, ElementOfSeq DEF CacheInv
  <2> QED
    BY <2>1 DEF CacheInv, HitsAreAnswers, ModelEntry
<1> QED
  BY <1>1, CacheIsAnswers, PTL

-----------------------------------------------------------------------------
(* Comments about the law.                                                  *)

LawInv ==
    /\ next # "triage" => triage \in TriageOf
    /\ text \in Regulatory /\ next # "triage" => triage.severity = 5
    /\ text \in Regulatory /\ next = "review_gate" /\ 5 >= TicketMin => "ticket" \in actions

LEMMA OverriddenIsGravest ==
    ASSUME NEW answer \in TriageOf
    PROVE  /\ Overridden(answer) \in TriageOf
           /\ text \in Regulatory => Overridden(answer).severity = 5
BY DEF Overridden, TriageOf

LEMMA LawInvKept ==
    ASSUME CallInv, Given, CacheInv, LawInv, [Next]_vars
    PROVE  LawInv'
<1>1. UNCHANGED text
  BY GivenStays
<1>2. ASSUME NEW answer \in TriageOf, Triaged(answer)
      PROVE  LawInv'
  BY <1>1, <1>2, OverriddenIsGravest DEF Triaged, LawInv
<1>3. ASSUME next = "triage", next' = next PROVE LawInv'
  BY <1>3 DEF LawInv
<1>4. CASE Triage
  <2>1. CASE \E e \in Hits(Own, text) : Triaged(e.answer)
    <3>1. PICK e \in Hits(Own, text) : Triaged(e.answer)
      BY <2>1
    <3>2. e.answer \in TriageOf
      BY <3>1, HitsAreEntries DEF CacheInv, ModelEntry, Entry
    <3> QED
      BY <1>2, <3>1, <3>2
  <2>2. CASE UNCHANGED next
    BY <1>3, <1>4, <2>2 DEF Triage
  <2> QED
    BY <1>4, <2>1, <2>2 DEF Triage, TriageByLLM, TriageByDecision
<1>5. CASE TriageAnswered
  <2>1. PICK answer \in (IF Answered(outcome) THEN Answer ELSE {Stub[text]}) : Triaged(answer)
    BY <1>5 DEF TriageAnswered
  <2>2. answer \in TriageOf
    BY <2>1, IntakeAssumption DEF Given
  <2> QED
    BY <1>2, <2>1, <2>2
<1>6. CASE SummaryAnswered
  BY <1>2, <1>6, IntakeAssumption DEF SummaryAnswered
<1>7. CASE OtherTriage \/ Tick
  BY <1>3, <1>7 DEF OtherTriage, Tick
<1>8. CASE PlanAnswered
  <2>1. PICK kinds \in SUBSET {"reversal", "ticket"} : actions' = WithTicket(kinds)
    BY <1>8 DEF PlanAnswered
  <2>2. next = "plan" /\ UNCHANGED triage
    BY <1>8 DEF PlanAnswered, ElseUnchanged
  <2> QED
    BY <1>1, <2>1, <2>2 DEF LawInv, WithTicket
<1>9. CASE Judge \/ JudgeAnswered \/ Prioritise \/ Draft \/ DraftAnswered \/ GroundCheck
           \/ GroundCheckAnswered \/ Plan
  <2>1. UNCHANGED triage /\ next \notin {"triage", "review_gate"} /\ next' # "review_gate"
    BY <1>9 DEF Judge, JudgeAnswered, Prioritise, Draft, DraftAnswered, GroundCheck,
       GroundCheckAnswered, Plan, Asks, ElseUnchanged, nodeVars, AfterGroundCheck
  <2> QED
    BY <1>1, <2>1 DEF LawInv
<1>10. CASE Waits \/ UNCHANGED vars
  BY <1>10 DEF Waits, vars, nodeVars, LawInv
<1> QED
  BY <1>4, <1>5, <1>6, <1>7, <1>8, <1>9, <1>10 DEF Next, Step

\* triage_node, plan_node: a case that names the law gets its ticket, whatever a
\* model or the cache thought of it.
THEOREM LawIsFollowedUp == Spec => []RegulatoryIsFollowedUp
<1>1. Init => LawInv
  BY DEF Init, LawInv
<1>2. Given /\ CallInv /\ CacheInv /\ LawInv /\ [Next]_vars => LawInv'
  BY LawInvKept
<1>3. LawInv => RegulatoryIsFollowedUp
  BY IntakeAssumption DEF LawInv, RegulatoryIsFollowedUp, MayPostAlone, TriageOf
<1> QED
  BY <1>1, <1>2, <1>3, CallsAreBounded, CacheIsAnswers, PTL DEF Spec
================================================================================
