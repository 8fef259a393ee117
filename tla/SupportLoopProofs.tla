-------------------------- MODULE SupportLoopProofs --------------------------
(***************************************************************************)
(* That an answer of a loop with verifiers was verified, that people get   *)
(* what is theirs to decide, and that a run goes over its budget by one    *)
(* pass at most, for any budgets, tools, workflows, facts and clauses, and *)
(* whatever the model decides (LoopInv); and of the scripted policy, that  *)
(* its runs are runs of the loop, that the timeline it remembers reaches   *)
(* nobody, that it opens no second ticket (WindowInv, TicketInv), and that *)
(* it always comes to a clean stop (SignsMean, CleanInv).                  *)
(***************************************************************************)
EXTENDS ScriptedSupport, SequenceTheorems, FiniteSetTheorems, TLAPS

\* A run that has not ended has kept nothing back: no answer, no hand-over, no
\* proposal a person should have, and a retry is left.
UnderWay ==
    phase # "ended" =>
        /\ answer = None /\ handoff = None
        /\ meter.verifier_retries <= MaxVerifierRetries
        /\ config.human_handoff => ~validated
        /\ config.human_handoff /\ sensitive => phase = "begin"

\* What the verifiers take for seen was observed or quoted.
SeenIsTold == seen \subseteq observed \cup quoted

\* What a run may have spent, depending on where it stands.
Paid ==
    /\ meter.iterations <= config.max_iterations
    /\ phase = "begin" => meter = NewMeter
    /\ phase = "deciding" =>
          /\ meter.iterations < config.max_iterations
          /\ meter.spent < MaxSpend
          /\ meter.seconds < MaxSeconds
    /\ phase \in {"calling", "consulting"} =>
          /\ meter.spent < MaxSpend + MaxCharge
          /\ meter.seconds < MaxSeconds + MaxWait

LoopInv ==
    /\ TypeOK /\ UnderWay /\ SeenIsTold /\ Paid
    /\ DoneMeansVerified /\ PeopleDecide /\ OverBudgetByOnePass

-----------------------------------------------------------------------------
(* The meter.                                                               *)

LEMMA ChargeIsMetered ==
    ASSUME NEW m \in Meter, NEW cost \in Nat, NEW wait \in Nat
    PROVE  /\ Charged(m, cost, wait) \in Meter
           /\ Charged(m, cost, wait).iterations = m.iterations
           /\ Charged(m, cost, wait).spent = m.spent + cost
           /\ Charged(m, cost, wait).seconds = m.seconds + wait
           /\ Charged(m, cost, wait).verifier_retries = m.verifier_retries
           /\ Charged(m, cost, wait).last = m.last
           /\ Charged(m, cost, wait).streak = m.streak
<1>1. m.spent + cost \in Nat /\ m.seconds + wait \in Nat
  BY DEF Meter
<1>2. [m EXCEPT !.spent = m.spent + cost] \in Meter
  BY <1>1 DEF Meter
<1>3. Charged(m, cost, wait)
        = [[m EXCEPT !.spent = m.spent + cost] EXCEPT !.seconds = m.seconds + wait]
  BY DEF Charged, Meter
<1> QED
  BY <1>1, <1>2, <1>3 DEF Meter

LEMMA RecordIsMetered ==
    ASSUME NEW m \in Meter, NEW d \in Decision
    PROVE  /\ RecordAction(m, d) \in Meter
           /\ RecordAction(m, d).iterations = m.iterations
           /\ RecordAction(m, d).spent = m.spent
           /\ RecordAction(m, d).seconds = m.seconds
           /\ RecordAction(m, d).verifier_retries = m.verifier_retries
           /\ RecordAction(m, d).last = <<d.action, d.args>>
           /\ RecordAction(m, d).streak =
                 IF m.last = <<d.action, d.args>> THEN m.streak + 1 ELSE 1
<1> DEFINE fingerprint == <<d.action, d.args>>
           streak == IF m.last = fingerprint THEN m.streak + 1 ELSE 1
<1>1. fingerprint \in Action \X SUBSET Fact
  BY DEF Decision
<1>2. streak \in Nat
  BY DEF Meter
<1>3. RecordAction(m, d) = [[m EXCEPT !.last = fingerprint] EXCEPT !.streak = streak]
  BY DEF RecordAction, Meter
<1> HIDE DEF fingerprint, streak
<1>4. [m EXCEPT !.last = fingerprint] \in Meter
  BY <1>1 DEF Meter
<1>5. /\ RecordAction(m, d) \in Meter
      /\ RecordAction(m, d).iterations = m.iterations
      /\ RecordAction(m, d).spent = m.spent
      /\ RecordAction(m, d).seconds = m.seconds
      /\ RecordAction(m, d).verifier_retries = m.verifier_retries
      /\ RecordAction(m, d).last = fingerprint /\ RecordAction(m, d).streak = streak
  BY <1>1, <1>2, <1>3, <1>4 DEF Meter
<1> QED
  BY <1>5 DEF fingerprint, streak

LEMMA PassIsMetered ==
    ASSUME NEW m \in Meter, NEW d \in Decision, NEW cost \in Nat, NEW wait \in Nat
    PROVE  /\ AfterPass(m, d, cost, wait) \in Meter
           /\ AfterPass(m, d, cost, wait).iterations = m.iterations + 1
           /\ AfterPass(m, d, cost, wait).spent = m.spent + cost
           /\ AfterPass(m, d, cost, wait).seconds = m.seconds + wait
           /\ AfterPass(m, d, cost, wait).verifier_retries = m.verifier_retries
           /\ AfterPass(m, d, cost, wait).last = <<d.action, d.args>>
           /\ AfterPass(m, d, cost, wait).streak =
                 IF m.last = <<d.action, d.args>> THEN m.streak + 1 ELSE 1
<1> DEFINE counted == [m EXCEPT !.iterations = @ + 1]
           charged == Charged(counted, cost, wait)
<1>1. /\ counted \in Meter /\ counted.iterations = m.iterations + 1
      /\ counted.spent = m.spent /\ counted.seconds = m.seconds
      /\ counted.verifier_retries = m.verifier_retries
      /\ counted.last = m.last /\ counted.streak = m.streak
  BY DEF Meter
<1>2. AfterPass(m, d, cost, wait) = RecordAction(charged, d)
  BY DEF AfterPass
<1> HIDE DEF counted
<1>3. /\ charged \in Meter /\ charged.iterations = counted.iterations
      /\ charged.spent = counted.spent + cost /\ charged.seconds = counted.seconds + wait
      /\ charged.verifier_retries = counted.verifier_retries
      /\ charged.last = counted.last /\ charged.streak = counted.streak
  BY <1>1, ChargeIsMetered
<1> HIDE DEF charged
<1> QED
  BY <1>1, <1>2, <1>3, RecordIsMetered

LEMMA RetryIsMetered ==
    ASSUME NEW m \in Meter
    PROVE  /\ Rejected(m) \in Meter
           /\ Rejected(m).iterations = m.iterations
           /\ Rejected(m).spent = m.spent
           /\ Rejected(m).seconds = m.seconds
           /\ Rejected(m).verifier_retries = m.verifier_retries + 1
           /\ Rejected(m).last = m.last /\ Rejected(m).streak = m.streak
BY DEF Rejected, Meter

\* The reasons a budget can give.
LEMMA ExhaustedGivesReason ==
    /\ Exhausted(meter) \in StopReason \cup {None}
    /\ Exhausted(meter) # "needs_human" /\ Exhausted(meter) # "done"
    /\ meter \in Meter /\ config \in Config /\ Exhausted(meter) = None =>
          /\ meter.iterations < config.max_iterations
          /\ meter.spent < MaxSpend
          /\ meter.seconds < MaxSeconds
<1>1. None \notin StopReason
  BY NoneAssumption
<1> QED
  BY <1>1, LoopAssumption DEF Exhausted, StopReason, Meter, Config

-----------------------------------------------------------------------------
(* A decision is acted on with the meter m, which has this pass.            *)

InPass(m) ==
    /\ m \in Meter
    /\ m.iterations <= config.max_iterations
    /\ m.spent < MaxSpend + MaxCharge
    /\ m.seconds < MaxSeconds + MaxWait
    /\ m.verifier_retries <= MaxVerifierRetries

Deciding(m) ==
    /\ LoopInv /\ phase = "deciding" /\ InPass(m)
    /\ UNCHANGED <<config, sensitive>>

LEMMA PassIsPaid ==
    ASSUME LoopInv, phase = "deciding",
           NEW d \in Decision, NEW cost \in 1 .. MaxCharge, NEW wait \in 0 .. MaxWait
    PROVE  InPass(AfterPass(meter, d, cost, wait))
<1> DEFINE m == AfterPass(meter, d, cost, wait)
<1>1. meter \in Meter /\ config.max_iterations \in Nat
  BY DEF LoopInv, TypeOK, Config
<1>2. cost \in Nat /\ cost <= MaxCharge /\ wait \in Nat /\ wait <= MaxWait
  BY LoopAssumption
<1>3. /\ m \in Meter /\ m.iterations = meter.iterations + 1
      /\ m.spent = meter.spent + cost /\ m.seconds = meter.seconds + wait
      /\ m.verifier_retries = meter.verifier_retries
  BY <1>1, <1>2, PassIsMetered
<1>4. /\ meter.iterations \in Nat /\ meter.spent \in Nat /\ meter.seconds \in Nat
  BY <1>1 DEF Meter
<1>5. /\ meter.iterations < config.max_iterations
      /\ meter.spent < MaxSpend /\ meter.seconds < MaxSeconds
      /\ meter.verifier_retries <= MaxVerifierRetries
  BY DEF LoopInv, Paid, UnderWay
<1> HIDE DEF m
<1>6. InPass(m)
  BY <1>1, <1>2, <1>3, <1>4, <1>5, LoopAssumption DEF InPass
<1> QED
  BY <1>6 DEF m

\* What stays as it is on most paths: the window and the answer.
LEMMA NothingHeard ==
    ASSUME LoopInv, Unheard
    PROVE  /\ SeenIsTold'
           /\ seen' \subseteq Fact /\ observed' \subseteq Fact /\ quoted' \subseteq Fact
           /\ clauses' \subseteq Clause
BY DEF LoopInv, TypeOK, SeenIsTold, Unheard

\* A run that goes on has everything still to do, whatever it has heard.
LEMMA GoingOnIsSafe ==
    ASSUME LoopInv, GoesOn, UNCHANGED <<config, sensitive, answer, handoff>>,
           phase # "ended",
           config.human_handoff => ~(sensitive /\ phase # "begin") /\ ~validated',
           config.human_handoff => ~sensitive,
           validated' \in BOOLEAN,
           meter' \in Meter,
           meter'.iterations <= config.max_iterations,
           meter'.spent < MaxSpend + 2 * MaxCharge,
           meter'.seconds < MaxSeconds + 2 * MaxWait,
           meter'.verifier_retries <= MaxVerifierRetries,
           SeenIsTold', seen' \subseteq Fact, observed' \subseteq Fact,
           quoted' \subseteq Fact, clauses' \subseteq Clause
    PROVE  LoopInv'
<1>1. answer = None /\ handoff = None /\ stop = None
  BY DEF LoopInv, UnderWay, TypeOK
<1>2. phase' = "ready" /\ stop' = None /\ answer' = None /\ handoff' = None
  BY <1>1 DEF GoesOn
<1>3. meter'.verifier_retries \in Nat
  BY DEF Meter
<1>4. TypeOK'
  BY <1>2, <1>3, LoopAssumption DEF TypeOK, LoopInv
<1>5. UnderWay' /\ Paid'
  BY <1>2 DEF UnderWay, Paid
<1>6. DoneMeansVerified' /\ PeopleDecide' /\ OverBudgetByOnePass'
  BY <1>2, NoneAssumption DEF DoneMeansVerified, PeopleDecide, OverBudgetByOnePass, StopReason
<1> QED
  BY <1>4, <1>5, <1>6 DEF LoopInv

\* A run that ends without an answer.
LEMMA EndingIsSafe ==
    ASSUME LoopInv, NEW reason \in StopReason, Ends(reason), Unheard,
           phase # "ended", UNCHANGED <<config, sensitive, answer>>,
           validated' \in BOOLEAN,
           handoff' \in HandoffReason \cup {None},
           reason = "needs_human" <=> handoff' # None,
           handoff' # None => config.human_handoff,
           config.human_handoff /\ validated' => handoff' = "proposal",
           config.human_handoff /\ sensitive => meter'.iterations = 0,
           meter' \in Meter,
           meter'.iterations <= config.max_iterations,
           meter'.spent < MaxSpend + 2 * MaxCharge,
           meter'.seconds < MaxSeconds + 2 * MaxWait,
           meter'.verifier_retries <= MaxVerifierRetries + 1
    PROVE  LoopInv'
<1>1. answer = None
  BY DEF LoopInv, UnderWay
<1>2. phase' = "ended" /\ stop' = reason /\ answer' = None /\ reason # None
  BY <1>1, NoneAssumption DEF Ends
<1>3. TypeOK'
  BY <1>2, NothingHeard DEF TypeOK, LoopInv
<1>4. UnderWay' /\ Paid'
  BY <1>2 DEF UnderWay, Paid
<1>5. DoneMeansVerified' /\ PeopleDecide' /\ OverBudgetByOnePass'
  BY <1>2 DEF DoneMeansVerified, PeopleDecide, OverBudgetByOnePass
<1> QED
  BY <1>3, <1>4, <1>5, NothingHeard DEF LoopInv

-----------------------------------------------------------------------------
(* What each decision does.                                                 *)

\* What holds of the pass's meter and its run, in one place.
LEMMA DecidingFacts ==
    ASSUME NEW m, Deciding(m)
    PROVE  /\ phase # "ended" /\ validated \in BOOLEAN
           /\ answer = None /\ handoff = None
           /\ config.human_handoff => ~validated /\ ~sensitive
           /\ m \in Meter /\ m.iterations <= config.max_iterations
           /\ m.spent < MaxSpend + 2 * MaxCharge
           /\ m.seconds < MaxSeconds + 2 * MaxWait
           /\ m.verifier_retries <= MaxVerifierRetries
           /\ m.verifier_retries <= MaxVerifierRetries + 1
BY LoopAssumption DEF Deciding, InPass, LoopInv, UnderWay, TypeOK, Meter

LEMMA AcceptedIsSafe ==
    ASSUME NEW m, Deciding(m), NEW a \in Answer,
           ~config.verifiers \/ RunVerifiers(a), Accepted(a, m),
           UNCHANGED <<handoff, validated>>
    PROVE  LoopInv'
<1>1. /\ phase' = "ended" /\ stop' = "done" /\ answer' = a /\ meter' = m
      /\ a # None /\ "done" # None /\ handoff' = None /\ Unheard
  BY DecidingFacts, NoneAssumption DEF Accepted, Ends, StopReason
<1>2. TypeOK'
  BY <1>1, DecidingFacts, NothingHeard DEF TypeOK, LoopInv, Deciding, StopReason
<1>3. UnderWay' /\ Paid'
  BY <1>1, DecidingFacts DEF UnderWay, Paid, Deciding
<1>4. SeenIsTold' /\ SeenIsTold
  BY <1>1, NothingHeard DEF Deciding, LoopInv
<1>5. DoneMeansVerified'
  BY <1>1, <1>4 DEF DoneMeansVerified, Deciding, Unheard, SeenIsTold, RunVerifiers,
     CheckGuardrails, CheckFactsTraced, CheckTimelinesCited, CheckCitationsRetrieved
<1>6. PeopleDecide'
  BY <1>1, DecidingFacts DEF PeopleDecide, Deciding
<1>7. OverBudgetByOnePass'
  BY <1>1, DecidingFacts DEF OverBudgetByOnePass, Deciding
<1> QED
  BY <1>2, <1>3, <1>4, <1>5, <1>6, <1>7 DEF LoopInv

LEMMA RejectionIsSafe ==
    ASSUME NEW m, Deciding(m), NEW a \in Answer,
           meter' = Rejected(m), UNCHANGED <<answer, handoff, validated>>,
           IF meter'.verifier_retries > MaxVerifierRetries
           THEN Ends("verifier_exhausted") /\ Unheard
           ELSE GoesOn /\ Feedback(a)
    PROVE  LoopInv'
<1>1. /\ meter' \in Meter
      /\ meter'.iterations = m.iterations /\ meter'.spent = m.spent
      /\ meter'.seconds = m.seconds /\ meter'.verifier_retries = m.verifier_retries + 1
      /\ m.verifier_retries \in Nat
  BY DecidingFacts, RetryIsMetered DEF Meter
<1>2. CASE meter'.verifier_retries > MaxVerifierRetries
  <2>1. /\ "verifier_exhausted" \in StopReason /\ handoff' = None
        /\ meter'.verifier_retries <= MaxVerifierRetries + 1
    BY <1>1, DecidingFacts, LoopAssumption DEF StopReason
  <2> QED
    BY <1>1, <1>2, <2>1, DecidingFacts, EndingIsSafe DEF Deciding
<1>3. CASE ~(meter'.verifier_retries > MaxVerifierRetries)
  <2>1. meter'.verifier_retries <= MaxVerifierRetries
    BY <1>1, <1>3, LoopAssumption
  <2>2. /\ seen' = seen \cup (a.facts \ seen) /\ quoted' = quoted \cup (a.facts \ seen)
        /\ clauses' = clauses /\ observed' = observed /\ a.facts \subseteq Fact
    BY <1>3 DEF Feedback, Quotes, Answer
  <2>3. /\ SeenIsTold' /\ seen' \subseteq Fact /\ observed' \subseteq Fact
        /\ quoted' \subseteq Fact /\ clauses' \subseteq Clause
    BY <2>2 DEF Deciding, LoopInv, TypeOK, SeenIsTold
  <2> QED
    BY <1>1, <1>3, <2>1, <2>3, DecidingFacts, GoingOnIsSafe DEF Deciding
<1> QED
  BY <1>2, <1>3

LEMMA FinishIsSafe ==
    ASSUME NEW m, Deciding(m), NEW d \in Decision, Finish(d, m)
    PROVE  LoopInv'
<1>1. CASE d.answer = None
  <2>1. /\ GoesOn /\ meter' = m /\ Unheard /\ UNCHANGED <<answer, handoff, validated>>
    BY <1>1 DEF Finish
  <2> QED
    BY <2>1, DecidingFacts, NothingHeard, GoingOnIsSafe DEF Deciding
<1>2. CASE d.answer # None
  <2>1. d.answer \in Answer
    BY <1>2 DEF Decision
  <2>2. Draft(d.answer, m) /\ UNCHANGED <<handoff, validated>>
    BY <1>2 DEF Finish
  <2>3. CASE ~config.verifiers \/ RunVerifiers(d.answer)
    BY <2>1, <2>2, <2>3, AcceptedIsSafe DEF Draft
  <2>4. CASE ~(~config.verifiers \/ RunVerifiers(d.answer))
    BY <2>1, <2>2, <2>4, RejectionIsSafe DEF Draft
  <2> QED
    BY <2>3, <2>4
<1> QED
  BY <1>1, <1>2

LEMMA HandoffIsSafe ==
    ASSUME NEW m, Deciding(m), NEW d \in Decision, Handoff(d, m)
    PROVE  LoopInv'
<1>1. Unheard /\ meter' = m /\ UNCHANGED <<answer, validated>>
  BY DEF Handoff
<1>2. CASE config.human_handoff
  <2>1. /\ Ends("needs_human") /\ handoff' = "asked" /\ "needs_human" \in StopReason
        /\ handoff' \in HandoffReason /\ handoff' # None
    BY <1>2, NoneAssumption DEF Handoff, StopReason, HandoffReason
  <2> QED
    BY <1>1, <1>2, <2>1, DecidingFacts, EndingIsSafe DEF Deciding
<1>3. CASE ~config.human_handoff
  <2>1. GoesOn /\ UNCHANGED handoff
    BY <1>3 DEF Handoff
  <2> QED
    BY <1>1, <1>3, <2>1, DecidingFacts, NothingHeard, GoingOnIsSafe DEF Deciding
<1> QED
  BY <1>2, <1>3

LEMMA ProposeIsSafe ==
    ASSUME NEW m, Deciding(m), NEW d \in Decision, Propose(d, m)
    PROVE  LoopInv'
<1>1. CASE ProposalValid(m) /\ config.human_handoff
  <2>1. /\ Ends("needs_human") /\ handoff' = "proposal" /\ validated' = TRUE
        /\ Unheard /\ meter' = m /\ UNCHANGED answer
        /\ "needs_human" \in StopReason /\ handoff' \in HandoffReason /\ handoff' # None
    BY <1>1, NoneAssumption DEF ProposalValid, StopReason, HandoffReason
  <2> QED
    BY <1>1, <2>1, DecidingFacts, EndingIsSafe DEF Deciding
<1>2. CASE ProposalValid(m) /\ ~config.human_handoff
  <2>1. /\ GoesOn /\ validated' \in BOOLEAN /\ Unheard /\ meter' = m
        /\ UNCHANGED <<answer, handoff>>
    BY <1>2 DEF ProposalValid
  <2> QED
    BY <1>2, <2>1, DecidingFacts, NothingHeard, GoingOnIsSafe DEF Deciding
<1>3. CASE ProposalRefused(d, m)
  <2>1. d.args \subseteq Fact
    BY DEF Decision
  <2>2. /\ SeenIsTold' /\ seen' \subseteq Fact /\ observed' \subseteq Fact
        /\ quoted' \subseteq Fact /\ clauses' \subseteq Clause
    BY <1>3, <2>1 DEF ProposalRefused, Deciding, LoopInv, TypeOK, SeenIsTold
  <2>3. GoesOn /\ meter' = m /\ UNCHANGED <<answer, handoff, validated>>
    BY <1>3 DEF ProposalRefused
  <2> QED
    BY <2>2, <2>3, DecidingFacts, GoingOnIsSafe DEF Deciding
<1>4. CASE ProposalFails(m)
  <2>1. /\ Ends("error") /\ meter' = m /\ Unheard /\ UNCHANGED <<answer, handoff, validated>>
        /\ "error" \in StopReason /\ handoff' = None
    BY <1>4, DecidingFacts DEF ProposalFails, StopReason
  <2> QED
    BY <2>1, DecidingFacts, EndingIsSafe DEF Deciding
<1> QED
  BY <1>1, <1>2, <1>3, <1>4 DEF Propose

LEMMA RefuseIsSafe ==
    ASSUME NEW m, Deciding(m), NEW d \in Decision, Refuse(d, m)
    PROVE  LoopInv'
BY DecidingFacts, NothingHeard, GoingOnIsSafe DEF Deciding, Refuse

LEMMA CallIsSafe ==
    ASSUME NEW m, Deciding(m), NEW d \in Decision, Call(d, m)
    PROVE  LoopInv'
<1>1. /\ phase' \in {"calling", "consulting"} /\ meter' = m /\ Unheard
      /\ UNCHANGED <<config, sensitive, stop, answer, handoff, validated>>
  BY DEF Call, Deciding
<1>2. stop = None
  BY DEF Deciding, LoopInv, TypeOK
<1>3. TypeOK'
  BY <1>1, <1>2, DecidingFacts, NothingHeard DEF TypeOK, LoopInv, Deciding
<1>4. UnderWay'
  BY <1>1, DecidingFacts DEF UnderWay, Deciding
<1>5. Paid'
  BY <1>1 DEF Paid, Deciding, InPass
<1>6. DoneMeansVerified' /\ PeopleDecide' /\ OverBudgetByOnePass'
  BY <1>1, <1>2, DecidingFacts, NoneAssumption
     DEF DoneMeansVerified, PeopleDecide, OverBudgetByOnePass, StopReason
<1> QED
  BY <1>1, <1>3, <1>4, <1>5, <1>6, NothingHeard DEF LoopInv, Deciding

-----------------------------------------------------------------------------
(* The steps.                                                               *)

LEMMA InitIsSafe == Init => LoopInv
<1> SUFFICES ASSUME Init PROVE LoopInv
  OBVIOUS
<1>1. config \in Config
  <2>1. PICK c \in Layers, flow \in Workflow : config = Narrowed(c, flow)
    BY DEF Init
  <2>2. flow.tools \in SUBSET Tool /\ flow.max_iterations \in Nat
    BY LoopAssumption
  <2> QED
    BY <2>1, <2>2, LoopAssumption DEF Narrowed, Layers, Config
<1>2. NewMeter \in Meter
  BY DEF NewMeter, Meter
<1>3. TypeOK
  <2>1. meter = NewMeter /\ meter.verifier_retries = 0
    BY DEF Init, NewMeter
  <2>2. 0 <= MaxVerifierRetries + 1
    BY LoopAssumption
  <2>3. /\ sensitive \in BOOLEAN /\ phase = "begin" /\ seen \subseteq Fact /\ observed = seen
        /\ clauses = {} /\ quoted = {} /\ stop = None /\ answer = None /\ handoff = None
        /\ validated = FALSE
    BY DEF Init
  <2> QED
    BY <1>1, <1>2, <2>1, <2>2, <2>3 DEF TypeOK
<1>4. UnderWay /\ SeenIsTold
  BY LoopAssumption DEF Init, UnderWay, SeenIsTold, NewMeter
<1>5. config.max_iterations \in Nat
  BY <1>1 DEF Config
<1>6. Paid
  BY <1>5, LoopAssumption DEF Init, Paid, NewMeter
<1>7. DoneMeansVerified /\ PeopleDecide /\ OverBudgetByOnePass
  BY <1>5, LoopAssumption, NoneAssumption
     DEF Init, DoneMeansVerified, PeopleDecide, OverBudgetByOnePass, NewMeter, StopReason
<1> QED
  BY <1>3, <1>4, <1>6, <1>7 DEF LoopInv

LEMMA BeginIsSafe == LoopInv /\ Begin => LoopInv'
<1> SUFFICES ASSUME LoopInv, Begin PROVE LoopInv'
  OBVIOUS
<1>1. /\ phase # "ended" /\ meter = NewMeter /\ meter' = meter /\ Unheard
      /\ answer = None /\ handoff = None /\ validated \in BOOLEAN
      /\ config.human_handoff => ~validated
      /\ UNCHANGED <<config, sensitive, answer, validated>>
      /\ meter.verifier_retries <= MaxVerifierRetries
      /\ meter.verifier_retries <= MaxVerifierRetries + 1
      /\ meter \in Meter /\ meter.iterations <= config.max_iterations
  BY LoopAssumption DEF Begin, LoopInv, TypeOK, UnderWay, Paid, Meter
<1>2. /\ meter.iterations = 0
      /\ meter.spent < MaxSpend + 2 * MaxCharge
      /\ meter.seconds < MaxSeconds + 2 * MaxWait
  BY <1>1, LoopAssumption DEF NewMeter
<1>3. CASE config.human_handoff /\ sensitive
  <2>1. /\ Ends("needs_human") /\ handoff' = "language" /\ "needs_human" \in StopReason
        /\ handoff' \in HandoffReason /\ handoff' # None
    BY <1>3, NoneAssumption DEF Begin, StopReason, HandoffReason
  <2> QED
    BY <1>1, <1>2, <1>3, <2>1, EndingIsSafe
<1>4. CASE ~(config.human_handoff /\ sensitive)
  <2>1. GoesOn /\ UNCHANGED handoff
    BY <1>4 DEF Begin
  <2> QED
    BY <1>1, <1>2, <1>4, <2>1, NothingHeard, GoingOnIsSafe
<1> QED
  BY <1>3, <1>4

\* Between the beginning and the end.
LEMMA Midway ==
    ASSUME LoopInv, phase # "ended", phase # "begin"
    PROVE  /\ answer = None /\ handoff = None /\ stop = None /\ validated \in BOOLEAN
           /\ config.human_handoff => ~validated /\ ~sensitive
           /\ meter \in Meter /\ meter.iterations <= config.max_iterations
           /\ meter.spent < MaxSpend + 2 * MaxCharge
           /\ meter.seconds < MaxSeconds + 2 * MaxWait
           /\ meter.verifier_retries <= MaxVerifierRetries
           /\ meter.verifier_retries <= MaxVerifierRetries + 1
BY LoopAssumption DEF LoopInv, TypeOK, UnderWay, Paid, OverBudgetByOnePass, Meter

LEMMA AskIsSafe == LoopInv /\ Ask => LoopInv'
<1> SUFFICES ASSUME LoopInv, Ask PROVE LoopInv'
  OBVIOUS
<1>1. /\ phase = "ready" /\ Unheard
      /\ UNCHANGED <<config, sensitive, meter, answer, handoff, validated>>
  BY DEF Ask
<1>2. CASE Exhausted(meter) # None
  <2> DEFINE reason == Exhausted(meter)
  <2>1. Ends(reason) /\ reason \in StopReason /\ reason # "needs_human"
    BY <1>2, ExhaustedGivesReason DEF Ask
  <2> HIDE DEF reason
  <2> QED
    BY <1>1, <2>1, Midway, EndingIsSafe
<1>3. CASE Exhausted(meter) = None
  <2>1. phase' = "deciding" /\ UNCHANGED stop
    BY <1>3 DEF Ask
  <2>2. /\ meter.iterations < config.max_iterations
        /\ meter.spent < MaxSpend /\ meter.seconds < MaxSeconds
    BY <1>3, ExhaustedGivesReason DEF LoopInv, TypeOK
  <2>3. TypeOK'
    BY <1>1, <2>1, Midway, NothingHeard DEF TypeOK, LoopInv
  <2>4. UnderWay' /\ Paid'
    BY <1>1, <2>1, <2>2, Midway DEF UnderWay, Paid
  <2>5. DoneMeansVerified' /\ PeopleDecide' /\ OverBudgetByOnePass'
    BY <1>1, <2>1, Midway, NoneAssumption
       DEF DoneMeansVerified, PeopleDecide, OverBudgetByOnePass, StopReason
  <2> QED
    BY <1>1, <2>3, <2>4, <2>5, NothingHeard DEF LoopInv
<1> QED
  BY <1>2, <1>3

LEMMA FailsIsSafe == LoopInv /\ Fails => LoopInv'
<1> SUFFICES ASSUME LoopInv, Fails PROVE LoopInv'
  OBVIOUS
<1>1. /\ phase # "ended" /\ phase # "begin" /\ Ends("error") /\ Unheard
      /\ "error" \in StopReason
      /\ UNCHANGED <<config, sensitive, meter, answer, handoff, validated>>
  BY DEF Fails, StopReason
<1> QED
  BY <1>1, Midway, EndingIsSafe

LEMMA DecideIsSafe == LoopInv /\ Decide => LoopInv'
<1> SUFFICES ASSUME LoopInv, Decide PROVE LoopInv'
  OBVIOUS
<1>1. PICK d \in Decision, cost \in 1 .. MaxCharge, wait \in 0 .. MaxWait :
          Decides(d, AfterPass(meter, d, cost, wait))
  BY DEF Decide
<1> DEFINE m == AfterPass(meter, d, cost, wait)
<1>2. Deciding(m)
  BY PassIsPaid DEF Decide, Deciding
<1>3. Decides(d, m)
  BY <1>1
<1> HIDE DEF m
<1> QED
  BY <1>2, <1>3, FinishIsSafe, HandoffIsSafe, ProposeIsSafe, RefuseIsSafe, CallIsSafe
     DEF Decides

\* What is heard from a tool or the sub-agent, and what it takes.
LEMMA HearingIsSafe ==
    ASSUME LoopInv, phase \in {"calling", "consulting"}, GoesOn,
           NEW facts \in SUBSET Fact, Observes(facts),
           NEW found \in SUBSET Clause, clauses' = clauses \cup found,
           NEW cost \in 0 .. MaxCharge, NEW wait \in 0 .. MaxWait,
           meter' = Charged(meter, cost, wait),
           UNCHANGED <<config, sensitive, answer, handoff, quoted, validated>>
    PROVE  LoopInv'
<1>1. meter \in Meter /\ cost \in Nat /\ wait \in Nat /\ cost <= MaxCharge /\ wait <= MaxWait
  BY LoopAssumption DEF LoopInv, TypeOK
<1>2. /\ meter' \in Meter /\ meter'.iterations = meter.iterations
      /\ meter'.spent = meter.spent + cost /\ meter'.seconds = meter.seconds + wait
      /\ meter'.verifier_retries = meter.verifier_retries
  BY <1>1, ChargeIsMetered
<1>3. meter.spent \in Nat /\ meter.seconds \in Nat
  BY <1>1 DEF Meter
<1>4. meter.spent < MaxSpend + MaxCharge /\ meter.seconds < MaxSeconds + MaxWait
  BY DEF LoopInv, Paid
<1>5. meter'.spent < MaxSpend + 2 * MaxCharge /\ meter'.seconds < MaxSeconds + 2 * MaxWait
  BY <1>1, <1>2, <1>3, <1>4, LoopAssumption
<1>6. /\ SeenIsTold' /\ seen' \subseteq Fact /\ observed' \subseteq Fact
      /\ quoted' \subseteq Fact /\ clauses' \subseteq Clause
  BY DEF LoopInv, TypeOK, SeenIsTold, Observes
<1>7. phase # "ended" /\ phase # "begin"
  OBVIOUS
<1> QED
  BY <1>2, <1>5, <1>6, <1>7, Midway, GoingOnIsSafe

LEMMA CalledIsSafe == LoopInv /\ Called => LoopInv'
<1> SUFFICES ASSUME LoopInv, Called PROVE LoopInv'
  OBVIOUS
<1>1. PICK facts \in SUBSET Fact, found \in SUBSET Clause, wait \in 0 .. MaxWait :
          Observes(facts) /\ clauses' = clauses \cup found /\ meter' = Charged(meter, 0, wait)
  BY DEF Called
<1>2. 0 \in 0 .. MaxCharge
  BY LoopAssumption
<1> QED
  BY <1>1, <1>2, HearingIsSafe DEF Called

LEMMA ConsultedIsSafe == LoopInv /\ Consulted => LoopInv'
<1> SUFFICES ASSUME LoopInv, Consulted PROVE LoopInv'
  OBVIOUS
<1>1. PICK facts \in SUBSET Fact, cited \in SUBSET Clause,
           cost \in 1 .. MaxCharge, wait \in 0 .. MaxWait :
          Observes(facts) /\ clauses' = clauses \cup cited
             /\ meter' = Charged(meter, cost, wait)
  BY DEF Consulted
<1>2. cost \in 0 .. MaxCharge
  BY LoopAssumption
<1> QED
  BY <1>1, <1>2, HearingIsSafe DEF Consulted

LEMMA LoopInvIsInductive == LoopInv /\ [Next]_vars => LoopInv'
<1>1. LoopInv /\ UNCHANGED vars => LoopInv'
  BY DEF vars, LoopInv, TypeOK, UnderWay, SeenIsTold, Paid, DoneMeansVerified,
     PeopleDecide, OverBudgetByOnePass
<1> QED
  BY <1>1, BeginIsSafe, AskIsSafe, FailsIsSafe, DecideIsSafe, CalledIsSafe,
     ConsultedIsSafe DEF Next

-----------------------------------------------------------------------------
(* The theorems.                                                            *)

THEOREM LoopInvariant == Spec => []LoopInv
<1> QED
  BY InitIsSafe, LoopInvIsInductive, PTL DEF Spec

\* Every variable of a run (run_loop, Meter, ContextWindow) keeps its type, and
\* a draft is rejected once more than the retries the budget grants, and no more.
THEOREM TypeCorrect == Spec => []TypeOK
<1>1. LoopInv => TypeOK
  BY DEF LoopInv
<1> QED
  BY <1>1, LoopInvariant, PTL

\* An answer that leaves a loop with verifiers passed them (_finish): it cites what
\* was retrieved, and states nothing that nobody ever mentioned.
THEOREM DoneIsVerified == Spec => []DoneMeansVerified
<1>1. LoopInv => DoneMeansVerified
  BY DEF LoopInv
<1> QED
  BY <1>1, LoopInvariant, PTL

\* A validated reversal and a message about law or fraud end with a person where
\* there is one (_drive, _propose), and with no answer of the model.
THEOREM PeopleAlwaysDecide == Spec => []PeopleDecide
<1>1. LoopInv => PeopleDecide
  BY DEF LoopInv
<1> QED
  BY <1>1, LoopInvariant, PTL

\* A run takes no pass too many and goes over its other budgets by its last pass
\* at most (Meter.exhausted).
THEOREM BudgetsHold == Spec => []OverBudgetByOnePass
<1>1. LoopInv => OverBudgetByOnePass
  BY DEF LoopInv
<1> QED
  BY <1>1, LoopInvariant, PTL

-----------------------------------------------------------------------------
(* The loop with the scripted policy.                                       *)

\* Who asks what, and how things are, is what a policy can be asked about.
Asked == intent \in Intent /\ world \in World /\ world.best \in world.found

\* The choices of the policy, by where they come from.
LEMMA DoesIs ==
    ASSUME NEW action, NEW args
    PROVE  /\ Does(action, args).action = action /\ Does(action, args).args = args
           /\ Does(action, args).answer = None /\ Does(action, args).says = "nothing"
BY DEF Does

LEMMA SaysIs ==
    ASSUME NEW what, NEW claims
    PROVE  /\ Says(what, claims).action = "final" /\ Says(what, claims).args = {}
           /\ Says(what, claims).answer = claims /\ Says(what, claims).says = what
BY DEF Says

\* What the policy may choose: a tool or a capability this loop has, of which the
\* ticket only if the view shows none; or an answer, which states what it
\* remembers only without a clause.
Tame(c) ==
    /\ \/ c.action \in config.tools \cap {LookupTransaction, ReversalStatus, SearchPolicy}
       \/ c.action = OpenTicket /\ OpenTicket \in config.tools /\ "ticket" \notin view
       \/ c.action = "consult_policy" /\ config.subagents
       \/ c.action = "handoff" /\ config.human_handoff
       \/ c.action \in {"final", "propose_reversal"}
    /\ c.args \in SUBSET Fact
    /\ IF c.action = "final" THEN c.answer \in Answer ELSE c.answer = None
    /\ c.says = "remembered" => c.answer = Claims({Txn}, {}, TRUE, FALSE)

LEMMA FinalIsTame ==
    ASSUME NEW what, what # "remembered", NEW facts \in SUBSET Fact,
           NEW cites \in SUBSET Clause, NEW timeline \in BOOLEAN, NEW blocked \in BOOLEAN
    PROVE  Tame(Says(what, Claims(facts, cites, timeline, blocked)))
BY SaysIs DEF Tame, Claims, Answer

LEMMA PlainlyIsTame == ASSUME NEW what, what # "remembered" PROVE Tame(Plainly(what))
BY FinalIsTame DEF Plainly

LEMMA OfTxnIsTame == ASSUME NEW what, what # "remembered" PROVE Tame(OfTxn(what))
BY FinalIsTame, ScriptedAssumption DEF OfTxn

LEMMA RememberedIsTame == Tame(Says("remembered", Claims({Txn}, {}, TRUE, FALSE)))
<1>1. PICK a : a = Claims({Txn}, {}, TRUE, FALSE)
  OBVIOUS
<1>2. a \in Answer
  BY <1>1, ScriptedAssumption DEF Claims, Answer
<1>3. PICK c : c = Says("remembered", a)
  OBVIOUS
<1>4. c.action = "final" /\ c.args = {} /\ c.answer = a
  BY <1>3, SaysIs
<1>5. Tame(c)
  BY <1>1, <1>2, <1>4 DEF Tame
<1> QED
  BY <1>1, <1>3, <1>5

LEMMA DoesIsTame ==
    ASSUME NEW action, NEW args \in SUBSET Fact,
           \/ action \in config.tools \cap {LookupTransaction, ReversalStatus, SearchPolicy}
           \/ action = OpenTicket /\ OpenTicket \in config.tools /\ "ticket" \notin view
           \/ action = "consult_policy" /\ config.subagents
           \/ action = "handoff" /\ config.human_handoff
           \/ action = "propose_reversal",
           config \in Config
    PROVE  Tame(Does(action, args))
<1>1. action # "final"
  BY LoopAssumption DEF KernelAction, Config
<1>2. PICK c : c = Does(action, args)
  OBVIOUS
<1>3. c.action = action /\ c.args = args /\ c.answer = None /\ c.says = "nothing"
  BY <1>2, DoesIs
<1>4. Tame(c)
  BY <1>1, <1>3 DEF Tame
<1> QED
  BY <1>2, <1>4

LEMMA TicketFirstIsTame ==
    ASSUME config \in Config, NEW what, what # "remembered"
    PROVE  Tame(TicketFirst(what))
BY DoesIsTame, PlainlyIsTame DEF TicketFirst

LEMMA AsksPolicyIsTame ==
    ASSUME config \in Config, NEW otherwise, Tame(otherwise)
    PROVE  Tame(AsksPolicy(otherwise))
BY DoesIsTame DEF AsksPolicy

LEMMA PolicyAnswerIsTame == ASSUME config \in Config, Asked PROVE Tame(PolicyAnswer)
<1>1. world.stated \in BOOLEAN /\ world.unsayable \in BOOLEAN
  BY DEF Asked, World
<1>2. Tame(Says("clause", Claims({}, {TheClause}, world.stated, world.unsayable)))
  BY <1>1, FinalIsTame, ScriptedAssumption
<1>3. Tame(Says("clause", Claims({}, Clause \ {TheClause}, FALSE, world.unsayable)))
  BY <1>1, FinalIsTame
<1>4. Tame(AsksPolicy(Plainly("will_check")))
  BY PlainlyIsTame, AsksPolicyIsTame
<1> QED
  BY <1>2, <1>3, <1>4 DEF PolicyAnswer

LEMMA WithTimelineIsTame == ASSUME config \in Config PROVE Tame(WithTimeline)
<1>1. Tame(Says("timeline", Claims({Txn}, {TheClause}, TRUE, FALSE)))
  BY FinalIsTame, ScriptedAssumption
<1>2. Tame(OfTxn("will_confirm"))
  BY OfTxnIsTame
<1>3. Tame(AsksPolicy(OfTxn("will_confirm")))
  BY <1>2, AsksPolicyIsTame
<1> QED
  BY <1>1, <1>2, <1>3, RememberedIsTame DEF WithTimeline

LEMMA ProposeFixIsTame == ASSUME config \in Config PROVE Tame(ProposeFix)
BY DoesIsTame, OfTxnIsTame, ScriptedAssumption DEF ProposeFix

LEMMA AboutTxnIsTame == ASSUME config \in Config PROVE Tame(AboutTxn)
<1>1. Tame(DuplicateDebit)
  <2>1. ReversalStatus \in config.tools => Tame(Does(ReversalStatus, {Txn}))
    BY DoesIsTame, ScriptedAssumption
  <2> QED
    BY <2>1, OfTxnIsTame, WithTimelineIsTame, ProposeFixIsTame DEF DuplicateDebit
<1> QED
  BY <1>1, OfTxnIsTame, WithTimelineIsTame, ProposeFixIsTame DEF AboutTxn

LEMMA ChoiceIsTame == ASSUME config \in Config, Asked PROVE Tame(ScriptedChoice)
<1>1. Tame(AboutMoney)
  <2>1. LookupTransaction \in config.tools => Tame(Does(LookupTransaction, {}))
    BY DoesIsTame
  <2> QED
    BY <2>1, TicketFirstIsTame, PlainlyIsTame, AboutTxnIsTame DEF AboutMoney
<1> QED
  BY <1>1, PolicyAnswerIsTame, PlainlyIsTame DEF ScriptedChoice

\* What ScriptedDecide does with a choice c, which the loop sees as d.
Chosen(c, d) ==
    /\ d.action = c.action /\ d.args = c.args /\ d.answer = c.answer
    /\ Decides(d, AfterPass(meter, d, 1, 0))
    /\ d.action = "propose_reversal" => stop' # "error"
    /\ window' = IF phase' = "ready"
                 THEN Observed(window, meter'.iterations, Noticed(d))
                 ELSE window
    /\ said' = c.says
    /\ calls' = IF phase' = "calling" /\ d.action \in DOMAIN calls
                THEN [calls EXCEPT ![d.action] = @ + 1] ELSE calls

\* A decision of the policy is one the loop allows for, whatever the view shows.
LEMMA ScriptedDecision ==
    ASSUME LoopInv, Asked, ScriptedDecide
    PROVE  \E c : c = ScriptedChoice /\ Tame(c) /\ \E d \in Decision : Chosen(c, d)
<1>1. PICK c : c = ScriptedChoice
  OBVIOUS
<1>2. Tame(c)
  BY <1>1, ChoiceIsTame DEF LoopInv, TypeOK
<1>3. PICK d : d = [action |-> c.action, args |-> c.args, answer |-> c.answer]
  OBVIOUS
<1>4. d.action = c.action /\ d.args = c.args /\ d.answer = c.answer
  BY <1>3
<1>5. d \in Decision
  <2>1. c.action \in Action
    BY <1>2, LoopAssumption, ScriptedAssumption DEF Tame, Action, KernelAction
  <2>2. /\ c.args \in SUBSET Fact /\ c.answer \in Answer \cup {None}
        /\ c.action # "final" => c.answer = None
    BY <1>2 DEF Tame
  <2> QED
    BY <1>3, <1>4, <2>1, <2>2 DEF Decision
<1>6. Chosen(c, d)
  BY <1>1, <1>3, <1>4 DEF ScriptedDecide, Chosen
<1> QED
  BY <1>1, <1>2, <1>5, <1>6

LEMMA ScriptedStepIsAStep ==
    ASSUME LoopInv, Asked, [ScriptedNext]_scriptedVars
    PROVE  [Next]_vars /\ Asked'
<1>1. ASSUME ScriptedDecide PROVE Decide
  <2>1. PICK d \in Decision : Decides(d, AfterPass(meter, d, 1, 0))
    BY <1>1, ScriptedDecision DEF Chosen
  <2>2. 1 \in 1 .. MaxCharge /\ 0 \in 0 .. MaxWait
    BY LoopAssumption
  <2> QED
    BY <1>1, <2>1, <2>2 DEF Decide, ScriptedDecide
<1>2. [Next]_vars
  BY <1>1 DEF ScriptedNext, Next, ScriptedBegin, ScriptedAsk, ScriptedCalled, ScriptedConsulted,
     scriptedVars
<1>3. UNCHANGED <<rung, intent, world>>
  BY DEF ScriptedNext, ScriptedBegin, ScriptedAsk, ScriptedDecide, ScriptedCalled,
     ScriptedConsulted, Fixed, scriptedVars
<1> QED
  BY <1>2, <1>3 DEF Asked

ScriptInv == LoopInv /\ Asked

LEMMA ScriptInvariant == ScriptedSpec => []ScriptInv
<1>1. ScriptedInit => ScriptInv
  BY InitIsSafe DEF ScriptedInit, ScriptInv, Asked, Sensible
<1>2. ScriptInv /\ [ScriptedNext]_scriptedVars => ScriptInv'
  BY ScriptedStepIsAStep, LoopInvIsInductive DEF ScriptInv
<1> QED
  BY <1>1, <1>2, PTL DEF ScriptedSpec

\* The scripted policy (decide of sanwaad/loop/policy.py) asks of the kernel
\* only what a model may ask: a run it drives is a run of the loop, and what is
\* proved of the loop holds of it.
THEOREM ScriptRunsTheLoop == ScriptedSpec => Spec
<1>1. ScriptedInit => Init
  BY DEF ScriptedInit
<1>2. ScriptInv /\ [ScriptedNext]_scriptedVars => [Next]_vars
  BY ScriptedStepIsAStep DEF ScriptInv
<1> QED
  BY <1>1, <1>2, ScriptInvariant, PTL DEF ScriptedSpec, Spec

\* What a customer was told is not what the policy remembers.
LEMMA TimelinesStep ==
    ASSUME ScriptInv, TimelinesAreThePolicys, [ScriptedNext]_scriptedVars
    PROVE  TimelinesAreThePolicys'
<1>1. CASE ScriptedDecide
  <2>1. PICK c, d : Tame(c) /\ Chosen(c, d)
    BY <1>1, ScriptedDecision DEF ScriptInv
  <2>2. answer = None /\ config' = config
    BY <1>1 DEF ScriptInv, LoopInv, UnderWay, ScriptedDecide
  <2>3. CASE answer' = None
    BY <2>3 DEF TimelinesAreThePolicys
  <2>4. CASE answer' # None
    <3>1. answer' = c.answer /\ (~config.verifiers \/ RunVerifiers(c.answer))
      BY <2>1, <2>2, <2>4 DEF Chosen, Decides, Finish, Draft, Accepted, Handoff, Propose,
         ProposalValid, ProposalRefused, ProposalFails, Refuse, Call
    <3>2. ~RunVerifiers(Claims({Txn}, {}, TRUE, FALSE))
      BY DEF RunVerifiers, CheckTimelinesCited, Claims
    <3>3. c.says = "remembered" => ~config.verifiers
      BY <2>1, <3>1, <3>2 DEF Tame
    <3> QED
      BY <2>1, <2>2, <3>3 DEF Chosen, TimelinesAreThePolicys
  <2> QED
    BY <2>3, <2>4
<1>2. CASE UNCHANGED <<config, answer, said>>
  BY <1>2 DEF TimelinesAreThePolicys
<1>3. UNCHANGED <<config, answer, said>> \/ ScriptedDecide
  BY DEF ScriptedNext, ScriptedBegin, Begin, ScriptedAsk, Ask, ScriptedCalled, Called,
     ScriptedConsulted, Consulted, scriptedVars, vars
<1> QED
  BY <1>1, <1>2, <1>3

\* The eager first draft, with the timeline the policy remembers, never reaches
\* a customer of a loop with verifiers (WithTimeline, check_timelines_cited): not
\* once the passes, the window or the retries run out either.
THEOREM TimelinesAreTheirs == ScriptedSpec => []TimelinesAreThePolicys
<1>1. ScriptedInit => TimelinesAreThePolicys
  BY DEF ScriptedInit, Init, TimelinesAreThePolicys
<1>2. ScriptInv /\ TimelinesAreThePolicys /\ [ScriptedNext]_scriptedVars
         => TimelinesAreThePolicys'
  BY TimelinesStep
<1> QED
  BY <1>1, <1>2, ScriptInvariant, PTL DEF ScriptedSpec

-----------------------------------------------------------------------------
(* The window: what lasts in it, and what a view of it can show.            *)

\* What the policy looks for in its view.
Sign == {"lookup", "txn", "lookup_failed", "no_reversal", "initiated", "credited",
         "search", "clause", "timeline", "other_clause", "ticket", "rejected", "refused",
         "no_handoff", "consulted", "sub_clause", "sub_other", "sub_timeline"}

\* A window, whatever its facts are.
Windows(facts) ==
    [observations : Seq([at : Nat, line : SUBSET Sign, signs : SUBSET Sign]),
     summary : Seq(SUBSET Sign), facts : {facts}]

\* A step that is shown has the signs of the line that will be left of it.
SoundWindow(w) ==
    /\ w \in Windows(w.facts)
    /\ \A i \in 1 .. Len(w.observations) : w.observations[i].line \subseteq w.observations[i].signs

\* The signs that every view shows which gives up no summary, and those that a
\* view may show.
Lasting(w) ==
    UNION ({w.observations[i].line : i \in DOMAIN w.observations} \cup ToSet(w.summary))

Known(w) ==
    UNION ({w.observations[i].signs : i \in DOMAIN w.observations} \cup ToSet(w.summary)
              \cup {f.signs : f \in w.facts})

LEMMA WindowFields ==
    ASSUME NEW w, w \in Windows(w.facts), NEW Obs,
           Obs = [at : Nat, line : SUBSET Sign, signs : SUBSET Sign]
    PROVE  /\ w.observations \in Seq(Obs) /\ w.summary \in Seq(SUBSET Sign)
           /\ Len(w.observations) \in Nat /\ Len(w.summary) \in Nat
           /\ DOMAIN w.observations = 1 .. Len(w.observations)
           /\ DOMAIN w.summary = 1 .. Len(w.summary)
<1>1. w.observations \in Seq(Obs) /\ w.summary \in Seq(SUBSET Sign)
  BY DEF Windows
<1> QED
  BY <1>1, LenProperties

\* Both sets, sign by sign.
LEMMA LastingIs ==
    ASSUME NEW w, w \in Windows(w.facts), NEW sign
    PROVE  sign \in Lasting(w) <=>
              \/ \E i \in 1 .. Len(w.observations) : sign \in w.observations[i].line
              \/ \E k \in 1 .. Len(w.summary) : sign \in w.summary[k]
<1>1. /\ DOMAIN w.observations = 1 .. Len(w.observations)
      /\ DOMAIN w.summary = 1 .. Len(w.summary)
  BY WindowFields
<1> QED
  BY <1>1 DEF Lasting, ToSet

LEMMA KnownIs ==
    ASSUME NEW w, w \in Windows(w.facts), NEW sign
    PROVE  sign \in Known(w) <=>
              \/ \E i \in 1 .. Len(w.observations) : sign \in w.observations[i].signs
              \/ \E k \in 1 .. Len(w.summary) : sign \in w.summary[k]
              \/ \E f \in w.facts : sign \in f.signs
<1>1. /\ DOMAIN w.observations = 1 .. Len(w.observations)
      /\ DOMAIN w.summary = 1 .. Len(w.summary)
  BY WindowFields
<1> QED
  BY <1>1 DEF Known, ToSet

LEMMA LastingIsKnown ==
    ASSUME NEW w, SoundWindow(w)
    PROVE  Lasting(w) \subseteq Known(w)
<1> SUFFICES ASSUME NEW sign \in Lasting(w)
             PROVE  sign \in Known(w)
  OBVIOUS
<1>1. CASE \E i \in 1 .. Len(w.observations) : sign \in w.observations[i].line
  BY <1>1, KnownIs DEF SoundWindow
<1>2. CASE \E k \in 1 .. Len(w.summary) : sign \in w.summary[k]
  BY <1>2, KnownIs DEF SoundWindow
<1> QED
  BY <1>1, <1>2, LastingIs DEF SoundWindow

\* The signs of the facts that come with an observation.
Noted(o) == UNION {f[2] : f \in o.keyed}

\* An observation adds its line to what lasts.
Grows(w, v, o) ==
    /\ SoundWindow(v)
    /\ Lasting(v) = Lasting(w) \cup o.line
    /\ Known(v) \subseteq Known(w) \cup o.line \cup o.rest \cup Noted(o)

LEMMA ObservedGrows ==
    ASSUME NEW w, SoundWindow(w), NEW at \in Nat, NEW o,
           o.line \in SUBSET Sign, o.rest \in SUBSET Sign, NEW v, v = Observed(w, at, o)
    PROVE  Grows(w, v, o)
<1>1. PICK Obs : Obs = [at : Nat, line : SUBSET Sign, signs : SUBSET Sign]
  OBVIOUS
<1>2. PICK x : x = [at |-> at, line |-> o.line, signs |-> o.line \cup o.rest]
  OBVIOUS
<1>3. x \in Obs
  BY <1>1, <1>2
<1>4. PICK obs, l : obs = w.observations /\ l = Len(obs)
  OBVIOUS
<1>5. PICK keys : keys = {f[1] : f \in o.keyed}
  OBVIOUS
<1>6. PICK added : added = {[key |-> f[1], signs |-> f[2], at |-> at] : f \in o.keyed}
  OBVIOUS
<1>7. PICK facts : facts = IF memory THEN {f \in w.facts : f.key \notin keys} \cup added
                           ELSE w.facts
  OBVIOUS
<1>8. v = [w EXCEPT !.observations = Append(obs, x), !.facts = facts]
  BY <1>2, <1>4, <1>5, <1>6, <1>7 DEF Observed
<1>9. obs \in Seq(Obs) /\ l \in Nat
  BY <1>1, <1>4, WindowFields DEF SoundWindow
<1>10. /\ Append(obs, x) \in Seq(Obs) /\ Len(Append(obs, x)) = l + 1
       /\ \A i \in 1 .. l : Append(obs, x)[i] = obs[i]
       /\ Append(obs, x)[l + 1] = x
  BY <1>3, <1>4, <1>9, AppendProperties
<1>11. PICK longer : longer = Append(obs, x)
  OBVIOUS
<1>12. /\ v.observations = longer /\ v.summary = w.summary /\ v.facts = facts
       /\ v \in Windows(facts)
  BY <1>1, <1>8, <1>10, <1>11 DEF SoundWindow, Windows
<1>13. SoundWindow(v)
  <2>1. ASSUME NEW i \in 1 .. l + 1 PROVE longer[i].line \subseteq longer[i].signs
    <3>1. CASE i = l + 1
      BY <1>2, <1>10, <1>11, <3>1
    <3>2. CASE i # l + 1
      <4>1. i \in 1 .. l
        BY <1>9, <3>2
      <4> QED
        BY <1>4, <1>10, <1>11, <4>1 DEF SoundWindow
    <3> QED
      BY <3>1, <3>2
  <2> QED
    BY <1>10, <1>11, <1>12, <2>1 DEF SoundWindow
<1>14. /\ Len(longer) = l + 1 /\ longer[l + 1] = x
       /\ \A i \in 1 .. l : longer[i] = obs[i]
       /\ l + 1 \in 1 .. l + 1 /\ \A i \in 1 .. l : i \in 1 .. l + 1
  BY <1>9, <1>10, <1>11
<1>15. ASSUME NEW i \in 1 .. l + 1
       PROVE  \/ i \in 1 .. l /\ longer[i] = obs[i]
              \/ i = l + 1 /\ longer[i] = x
  <2>1. i \in 1 .. l \/ i = l + 1
    <3>1. l \in Nat
      BY <1>9
    <3> QED
      BY <3>1
  <2>2. CASE i \in 1 .. l
    BY <1>14, <2>2
  <2>3. CASE i = l + 1
    BY <1>14, <2>3
  <2> QED
    BY <2>1, <2>2, <2>3
<1>16. /\ \A sign : sign \in Lasting(v) <=>
              \/ \E i \in 1 .. l + 1 : sign \in longer[i].line
              \/ \E k \in 1 .. Len(w.summary) : sign \in w.summary[k]
       /\ \A sign : sign \in Lasting(w) <=>
              \/ \E i \in 1 .. l : sign \in obs[i].line
              \/ \E k \in 1 .. Len(w.summary) : sign \in w.summary[k]
  <2>1. v \in Windows(v.facts) /\ w \in Windows(w.facts)
    BY <1>12 DEF SoundWindow
  <2>2. \A sign : sign \in Lasting(v) <=>
              \/ \E i \in 1 .. Len(v.observations) : sign \in v.observations[i].line
              \/ \E k \in 1 .. Len(v.summary) : sign \in v.summary[k]
    BY <2>1, LastingIs
  <2>3. \A sign : sign \in Lasting(w) <=>
              \/ \E i \in 1 .. Len(w.observations) : sign \in w.observations[i].line
              \/ \E k \in 1 .. Len(w.summary) : sign \in w.summary[k]
    BY <2>1, LastingIs
  <2> QED
    BY <1>4, <1>12, <1>14, <2>2, <2>3
<1>17. Lasting(v) = Lasting(w) \cup o.line
  <2>1. ASSUME NEW sign \in Lasting(v) PROVE sign \in Lasting(w) \cup o.line
    <3>1. CASE \E i \in 1 .. l + 1 : sign \in longer[i].line
      <4>1. PICK i \in 1 .. l + 1 : sign \in longer[i].line
        BY <3>1
      <4>2. CASE i \in 1 .. l /\ longer[i] = obs[i]
        BY <1>16, <4>1, <4>2
      <4>3. CASE longer[i] = x
        BY <1>2, <4>1, <4>3
      <4> QED
        BY <1>15, <4>2, <4>3
    <3> QED
      BY <1>16, <2>1, <3>1
  <2>2. ASSUME NEW sign \in Lasting(w) PROVE sign \in Lasting(v)
    <3>1. CASE \E i \in 1 .. l : sign \in obs[i].line
      BY <1>14, <1>16, <3>1
    <3> QED
      BY <1>16, <2>2, <3>1
  <2>3. ASSUME NEW sign \in o.line PROVE sign \in Lasting(v)
    BY <1>2, <1>14, <1>16, <2>3
  <2> QED
    BY <2>1, <2>2, <2>3
<1>18. ASSUME NEW sign \in Known(v)
       PROVE  sign \in Known(w) \cup o.line \cup o.rest \cup Noted(o)
  <2>1. CASE \E i \in 1 .. l + 1 : sign \in longer[i].signs
    <3>1. PICK i \in 1 .. l + 1 : sign \in longer[i].signs
      BY <2>1
    <3>2. CASE i \in 1 .. l /\ longer[i] = obs[i]
      BY <1>4, <3>1, <3>2, KnownIs DEF SoundWindow
    <3>3. CASE longer[i] = x
      BY <1>2, <3>1, <3>3
    <3> QED
      BY <1>15, <3>2, <3>3
  <2>2. CASE \E k \in 1 .. Len(w.summary) : sign \in w.summary[k]
    BY <2>2, KnownIs DEF SoundWindow
  <2>3. CASE \E f \in facts : sign \in f.signs
    <3>1. PICK f \in facts : sign \in f.signs
      BY <2>3
    <3>2. CASE f \in w.facts
      BY <3>1, <3>2, KnownIs DEF SoundWindow
    <3>3. CASE f \in added
      BY <1>6, <3>1, <3>3 DEF Noted
    <3> QED
      BY <1>7, <3>2, <3>3
  <2>4. sign \in Known(v) <=>
          \/ \E i \in 1 .. l + 1 : sign \in longer[i].signs
          \/ \E k \in 1 .. Len(w.summary) : sign \in w.summary[k]
          \/ \E f \in facts : sign \in f.signs
    BY <1>12, <1>14, KnownIs
  <2> QED
    BY <1>18, <2>1, <2>2, <2>3, <2>4
<1> QED
  BY <1>13, <1>17, <1>18 DEF Grows

\* To compact old steps moves their lines into the summary.
LEMMA CompactedKeeps ==
    ASSUME NEW w, SoundWindow(w), NEW n \in 0 .. OldSteps(w), NEW v, v = Compacted(w, n)
    PROVE  SoundWindow(v) /\ Lasting(v) = Lasting(w) /\ Known(v) \subseteq Known(w)
<1>1. PICK Obs : Obs = [at : Nat, line : SUBSET Sign, signs : SUBSET Sign]
  OBVIOUS
<1>2. PICK obs, sum, l, k : /\ obs = w.observations /\ sum = w.summary
                            /\ l = Len(obs) /\ k = Len(sum)
  OBVIOUS
<1>3. obs \in Seq(Obs) /\ sum \in Seq(SUBSET Sign) /\ l \in Nat /\ k \in Nat
  BY <1>1, <1>2, WindowFields DEF SoundWindow
<1>4. n \in Nat /\ n <= l
  BY <1>2, <1>3 DEF OldSteps, KEEP_RECENT
<1>5. PICK lines : lines = [i \in 1 .. n |-> obs[i].line]
  OBVIOUS
<1>6. \A i \in 1 .. l : obs[i] \in Obs
  BY <1>2, <1>3, ElementOfSeq
<1>7. lines \in Seq(SUBSET Sign) /\ Len(lines) = n
  <2>1. \A i \in 1 .. n : obs[i].line \in SUBSET Sign
    BY <1>1, <1>3, <1>4, <1>6
  <2>2. lines \in [1 .. n -> SUBSET Sign]
    BY <1>5, <2>1
  <2> QED
    BY <1>4, <2>2
<1>8. PICK left, told : left = SubSeq(obs, n + 1, l) /\ told = sum \o lines
  OBVIOUS
<1>9. /\ left \in Seq(Obs) /\ Len(left) = l - n
      /\ \A i \in 1 .. l - n : left[i] = obs[n + i]
  <2>1. /\ n + 1 \in Int /\ l \in Int /\ \A i \in n + 1 .. l : obs[i] \in Obs
    BY <1>3, <1>4, <1>6
  <2>2. /\ left \in Seq(Obs) /\ Len(left) = IF n + 1 <= l THEN l - (n + 1) + 1 ELSE 0
        /\ \A i \in 1 .. l - (n + 1) + 1 : left[i] = obs[(n + 1) + i - 1]
    BY <1>8, <2>1, SubSeqProperties
  <2> QED
    BY <1>3, <1>4, <2>2
<1>10. /\ told \in Seq(SUBSET Sign) /\ Len(told) = k + n
       /\ \A i \in 1 .. k + n : told[i] = IF i <= k THEN sum[i] ELSE lines[i - k]
  <2>1. sum \o lines \in Seq(SUBSET Sign) /\ Len(sum \o lines) = Len(sum) + Len(lines)
    BY <1>3, <1>7, ConcatProperties
  <2>2. \A i \in 1 .. Len(sum) + Len(lines) :
           (sum \o lines)[i] = IF i <= Len(sum) THEN sum[i] ELSE lines[i - Len(sum)]
    BY <1>3, <1>7, ConcatProperties
  <2> QED
    BY <1>2, <1>7, <1>8, <2>1, <2>2
<1>11. v = [w EXCEPT !.observations = left, !.summary = told]
  BY <1>2, <1>5, <1>8 DEF Compacted, CompactedLine
<1>12. /\ v.observations = left /\ v.summary = told /\ v.facts = w.facts
       /\ v \in Windows(v.facts)
  BY <1>1, <1>9, <1>10, <1>11 DEF SoundWindow, Windows
<1>13. \A j \in 1 .. l - n : n + j \in 1 .. l /\ left[j] = obs[n + j]
  BY <1>3, <1>4, <1>9
<1>14. ASSUME NEW j \in 1 .. k + n
       PROVE  \/ j \in 1 .. k /\ told[j] = sum[j]
              \/ j - k \in 1 .. l /\ told[j] = obs[j - k].line
  <2>1. CASE j <= k
    BY <1>3, <1>4, <1>10, <2>1
  <2>2. CASE j > k
    <3>1. j - k \in 1 .. n /\ j - k \in 1 .. l
      BY <1>3, <1>4, <2>2
    <3>2. told[j] = lines[j - k]
      BY <1>3, <1>10, <2>2
    <3> QED
      BY <1>5, <3>1, <3>2
  <2> QED
    BY <1>3, <1>4, <2>1, <2>2
<1>15. \A i \in 1 .. k : i \in 1 .. k + n /\ told[i] = sum[i]
  BY <1>3, <1>4, <1>10
<1>16. ASSUME NEW i \in 1 .. l
       PROVE  \/ k + i \in 1 .. k + n /\ told[k + i] = obs[i].line
              \/ i - n \in 1 .. l - n /\ left[i - n] = obs[i]
  <2>1. CASE i <= n
    <3>1. k + i \in 1 .. k + n /\ i \in 1 .. n /\ (k + i) - k = i /\ ~(k + i <= k)
      BY <1>3, <1>4, <2>1
    <3>2. told[k + i] = lines[(k + i) - k]
      BY <1>10, <3>1
    <3> QED
      BY <1>5, <3>1, <3>2
  <2>2. CASE i > n
    <3>1. i - n \in 1 .. l - n /\ n + (i - n) = i
      BY <1>3, <1>4, <2>2
    <3> QED
      BY <1>13, <3>1
  <2> QED
    BY <1>3, <1>4, <2>1, <2>2
<1>17. /\ \A sign : sign \in Lasting(v) <=>
              \/ \E i \in 1 .. l - n : sign \in left[i].line
              \/ \E j \in 1 .. k + n : sign \in told[j]
       /\ \A sign : sign \in Known(v) <=>
              \/ \E i \in 1 .. l - n : sign \in left[i].signs
              \/ \E j \in 1 .. k + n : sign \in told[j]
              \/ \E f \in w.facts : sign \in f.signs
  BY <1>9, <1>10, <1>12, LastingIs, KnownIs
<1>18. /\ \A sign : sign \in Lasting(w) <=>
              \/ \E i \in 1 .. l : sign \in obs[i].line
              \/ \E j \in 1 .. k : sign \in sum[j]
       /\ \A sign : sign \in Known(w) <=>
              \/ \E i \in 1 .. l : sign \in obs[i].signs
              \/ \E j \in 1 .. k : sign \in sum[j]
              \/ \E f \in w.facts : sign \in f.signs
  BY <1>2, LastingIs, KnownIs DEF SoundWindow
<1>19. \A i \in 1 .. l : obs[i].line \subseteq obs[i].signs
  BY <1>2 DEF SoundWindow
<1>20. SoundWindow(v)
  BY <1>9, <1>12, <1>13, <1>19 DEF SoundWindow
<1>21. ASSUME NEW sign \in Lasting(w) PROVE sign \in Lasting(v)
  <2>1. CASE \E i \in 1 .. l : sign \in obs[i].line
    <3>1. PICK i \in 1 .. l : sign \in obs[i].line
      BY <2>1
    <3>2. CASE k + i \in 1 .. k + n /\ told[k + i] = obs[i].line
      BY <1>17, <3>1, <3>2
    <3>3. CASE i - n \in 1 .. l - n /\ left[i - n] = obs[i]
      BY <1>17, <3>1, <3>3
    <3> QED
      BY <1>16, <3>2, <3>3
  <2>2. CASE \E j \in 1 .. k : sign \in sum[j]
    BY <1>15, <1>17, <2>2
  <2> QED
    BY <1>18, <1>21, <2>1, <2>2
<1>22. ASSUME NEW sign \in Lasting(v) PROVE sign \in Lasting(w)
  <2>1. CASE \E i \in 1 .. l - n : sign \in left[i].line
    BY <1>13, <1>18, <2>1
  <2>2. CASE \E j \in 1 .. k + n : sign \in told[j]
    <3>1. PICK j \in 1 .. k + n : sign \in told[j]
      BY <2>2
    <3> QED
      BY <1>14, <1>18, <3>1
  <2> QED
    BY <1>17, <1>22, <2>1, <2>2
<1>23. ASSUME NEW sign \in Known(v) PROVE sign \in Known(w)
  <2>1. CASE \E i \in 1 .. l - n : sign \in left[i].signs
    BY <1>13, <1>18, <2>1
  <2>2. CASE \E j \in 1 .. k + n : sign \in told[j]
    <3>1. PICK j \in 1 .. k + n : sign \in told[j]
      BY <2>2
    <3> QED
      BY <1>14, <1>18, <1>19, <3>1
  <2>3. CASE \E f \in w.facts : sign \in f.signs
    BY <1>18, <2>3
  <2> QED
    BY <1>17, <1>23, <2>1, <2>2, <2>3
<1> QED
  BY <1>20, <1>21, <1>22, <1>23

\* A view that gives up no summary shows what lasts, and only what is known.
LEMMA ComposedShows ==
    ASSUME NEW w, SoundWindow(w), NEW view2, view2 = Composed(w, TRUE, ShownFacts(w))
    PROVE  Lasting(w) \subseteq view2 /\ view2 \subseteq Known(w)
<1>1. PICK obs, sum, shown : obs = w.observations /\ sum = w.summary /\ shown = ShownFacts(w)
  OBVIOUS
<1>2. DOMAIN obs = 1 .. Len(obs) /\ DOMAIN sum = 1 .. Len(sum)
  BY <1>1, WindowFields DEF SoundWindow
<1>3. shown \subseteq w.facts
  BY <1>1 DEF ShownFacts
<1>4. ASSUME NEW sign
      PROVE  sign \in view2 <=> \/ \E i \in 1 .. Len(obs) : sign \in obs[i].signs
                                \/ \E k \in 1 .. Len(sum) : sign \in sum[k]
                                \/ \E f \in shown : sign \in f.signs
  <2>1. sign \in UNION ToSet(sum) <=> \E k \in 1 .. Len(sum) : sign \in sum[k]
    BY <1>2 DEF ToSet
  <2>2. SummarySigns(w, TRUE) = UNION ToSet(sum)
    BY <1>1 DEF SummarySigns
  <2>3. view2 = SummarySigns(w, TRUE) \cup UNION ({f.signs : f \in ShownFacts(w)}
                   \cup {w.observations[i].signs : i \in DOMAIN w.observations})
    BY DEF Composed
  <2> DEFINE ofFacts == {f.signs : f \in ShownFacts(w)}
             ofSteps == {w.observations[i].signs : i \in DOMAIN w.observations}
  <2>4. (\E A \in ofFacts : sign \in A) <=> \E f \in shown : sign \in f.signs
    BY <1>1
  <2>5. (\E A \in ofSteps : sign \in A) <=> \E i \in 1 .. Len(obs) : sign \in obs[i].signs
    BY <1>1, <1>2
  <2> HIDE DEF ofFacts, ofSteps
  <2>6. view2 = SummarySigns(w, TRUE) \cup UNION (ofFacts \cup ofSteps)
    BY <2>3 DEF ofFacts, ofSteps
  <2> QED
    BY <2>1, <2>2, <2>4, <2>5, <2>6
<1>5. ASSUME NEW sign \in Lasting(w) PROVE sign \in view2
  <2>1. CASE \E i \in 1 .. Len(obs) : sign \in obs[i].line
    BY <1>1, <1>4, <2>1 DEF SoundWindow
  <2>2. CASE \E k \in 1 .. Len(sum) : sign \in sum[k]
    BY <1>4, <2>2
  <2> QED
    BY <1>1, <1>5, <2>1, <2>2, LastingIs DEF SoundWindow
<1>6. ASSUME NEW sign \in view2 PROVE sign \in Known(w)
  <2>1. sign \in Known(w) <=> \/ \E i \in 1 .. Len(obs) : sign \in obs[i].signs
                              \/ \E k \in 1 .. Len(sum) : sign \in sum[k]
                              \/ \E f \in w.facts : sign \in f.signs
    BY <1>1, KnownIs DEF SoundWindow
  <2> QED
    BY <1>3, <1>4, <1>6, <2>1
<1> QED
  BY <1>5, <1>6

-----------------------------------------------------------------------------
(* The window of a run at work.                                             *)

WindowInv ==
    /\ SoundWindow(window) /\ gaveUp \in Nat
    /\ phase = "deciding" /\ gaveUp < 2 =>
          Lasting(window) \subseteq view /\ view \subseteq Known(window)

\* What asking does to the window.
Asks(n, level) ==
    /\ window' = Compacted(window, n)
    /\ gaveUp' = IF level > gaveUp THEN level ELSE gaveUp
    /\ level < 2 => view' = Composed(window', TRUE, ShownFacts(window'))

LEMMA RenderAsks ==
    ASSUME SoundWindow(window), Render
    PROVE  \E n \in 0 .. OldSteps(window), level \in 0 .. 3 : Asks(n, level)
<1>1. OldSteps(window) \in 0 .. OldSteps(window)
  <2>1. Len(window.observations) \in Nat
    BY WindowFields DEF SoundWindow
  <2> QED
    BY <2>1 DEF OldSteps, KEEP_RECENT
<1>2. ASSUME NEW n \in 0 .. OldSteps(window), NEW level \in 0 .. 3,
             Keeps(Compacted(window, n), level),
             level < 2 => view' = Composed(window', TRUE, ShownFacts(window'))
      PROVE  \E m \in 0 .. OldSteps(window), top \in 0 .. 3 : Asks(m, top)
  BY <1>2 DEF Keeps, Asks
<1>3. ASSUME NEW n \in 0 .. OldSteps(window),
             Keeps(Compacted(window, n), IF n = 0 THEN 0 ELSE 1),
             view' = Composed(window', TRUE, ShownFacts(window'))
      PROVE  \E m \in 0 .. OldSteps(window), top \in 0 .. 3 : Asks(m, top)
  <2>1. PICK level : level = IF n = 0 THEN 0 ELSE 1
    OBVIOUS
  <2>2. level \in 0 .. 3 /\ Keeps(Compacted(window, n), level)
    BY <1>3, <2>1
  <2> QED
    BY <1>2, <1>3, <2>2
<1>4. ASSUME NEW level \in 2 .. 3, Keeps(Compacted(window, OldSteps(window)), level)
      PROVE  \E m \in 0 .. OldSteps(window), top \in 0 .. 3 : Asks(m, top)
  <2>1. level \in 0 .. 3 /\ ~(level < 2)
    OBVIOUS
  <2> QED
    BY <1>1, <1>2, <1>4, <2>1
<1>5. CASE Keeps(Compacted(window, OldSteps(window)), 2)
  <2>1. PICK level : level = 2
    OBVIOUS
  <2>2. level \in 2 .. 3 /\ Keeps(Compacted(window, OldSteps(window)), level)
    BY <1>5, <2>1
  <2> QED
    BY <1>4, <2>2
<1>6. CASE Keeps(Compacted(window, OldSteps(window)), 3)
  <2>1. PICK level : level = 3
    OBVIOUS
  <2>2. level \in 2 .. 3 /\ Keeps(Compacted(window, OldSteps(window)), level)
    BY <1>6, <2>1
  <2> QED
    BY <1>4, <2>2
<1> QED
  BY <1>3, <1>5, <1>6 DEF Render

\* What is shown may be less, what lasts is not.
LEMMA AskWindow ==
    ASSUME WindowInv, ScriptedAsk
    PROVE  /\ WindowInv' /\ (gaveUp' < 2 => gaveUp < 2)
           /\ Lasting(window') = Lasting(window) /\ Known(window') \subseteq Known(window)
<1>1. CASE phase' # "deciding"
  <2>1. window' = window /\ gaveUp' = gaveUp
    BY <1>1 DEF ScriptedAsk
  <2> QED
    BY <1>1, <2>1 DEF WindowInv
<1>2. CASE phase' = "deciding"
  <2>1. PICK n \in 0 .. OldSteps(window), level \in 0 .. 3 : Asks(n, level)
    BY <1>2, RenderAsks DEF ScriptedAsk, WindowInv
  <2>2. /\ SoundWindow(window') /\ Lasting(window') = Lasting(window)
        /\ Known(window') \subseteq Known(window)
    BY <2>1, CompactedKeeps DEF Asks, WindowInv
  <2>3. gaveUp' \in Nat /\ (gaveUp' < 2 => gaveUp < 2 /\ level < 2)
    BY <2>1 DEF Asks, WindowInv
  <2>4. gaveUp' < 2 => Lasting(window') \subseteq view' /\ view' \subseteq Known(window')
    BY <2>1, <2>2, <2>3, ComposedShows DEF Asks
  <2> QED
    BY <2>2, <2>3, <2>4 DEF WindowInv
<1> QED
  BY <1>1, <1>2

LEMMA ObservationFields ==
    ASSUME NEW line, NEW rest, NEW keyed, NEW o, o = Observation(line, rest, keyed)
    PROVE  o.line = line /\ o.rest = rest /\ Noted(o) = UNION {f[2] : f \in keyed}
BY DEF Observation, Noted

LEMMA ReadyDecision ==
    ASSUME config \in Config, NEW c, Tame(c), NEW d, Chosen(c, d)
    PROVE  /\ phase' # "deciding"
           /\ phase' = "ready" => c.action \in {"final", "propose_reversal"}
           /\ phase' = "calling" => d.action \notin KernelAction
<1>1. d.action = c.action
  BY DEF Chosen
<1>2. ~Refuse(d, AfterPass(meter, d, 1, 0))
  <2>1. config.tools \cap KernelAction = {}
    BY LoopAssumption DEF Config
  <2> QED
    BY <1>1, <2>1 DEF Tame, Refuse, Refused, KernelAction
<1>3. CASE Finish(d, AfterPass(meter, d, 1, 0))
  BY <1>1, <1>3 DEF Finish, Draft, Accepted, Ends, GoesOn
<1>4. CASE Handoff(d, AfterPass(meter, d, 1, 0))
  <2>1. config.human_handoff
    BY <1>1, <1>4, LoopAssumption, ScriptedAssumption DEF Handoff, Tame, KernelAction
  <2> QED
    BY <1>4, <2>1 DEF Handoff, Ends
<1>5. CASE Propose(d, AfterPass(meter, d, 1, 0))
  BY <1>1, <1>5 DEF Propose, ProposalValid, ProposalRefused, ProposalFails, Ends, GoesOn
<1>6. CASE Call(d, AfterPass(meter, d, 1, 0))
  <2>1. /\ phase' \in {"calling", "consulting"}
        /\ phase' = "calling" => d.action \in config.tools
    BY <1>6 DEF Call
  <2>2. config.tools \cap KernelAction = {}
    BY LoopAssumption DEF Config
  <2> QED
    BY <2>1, <2>2
<1> QED
  BY <1>2, <1>3, <1>4, <1>5, <1>6 DEF Chosen, Decides

\* What a final or a proposal leaves: a sign of how it went, or nothing.
LEMMA NoticedIs ==
    ASSUME NEW d, d.action \in {"final", "propose_reversal"}, phase' = "ready",
           NEW o, o = Noticed(d)
    PROVE  /\ o.line = IF d.action = "final"
                       THEN IF CheckTimelinesCited(d.answer) THEN {} ELSE {"rejected"}
                       ELSE IF world.valid THEN {"no_handoff"} ELSE {"refused"}
           /\ o.rest = {} /\ Noted(o) \subseteq o.line
<1>1. CASE d.action = "final"
  <2>1. PICK line : line = IF CheckTimelinesCited(d.answer) THEN {} ELSE {"rejected"}
    OBVIOUS
  <2>2. o = Observation(line, {}, {})
    BY <1>1, <2>1 DEF Noticed
  <2>3. o.line = line /\ o.rest = {} /\ Noted(o) = UNION {f[2] : f \in {}}
    BY <2>2, ObservationFields
  <2> QED
    BY <1>1, <2>1, <2>3
<1>2. CASE d.action = "propose_reversal"
  <2>1. PICK sign : sign = IF world.valid THEN {"no_handoff"} ELSE {"refused"}
    OBVIOUS
  <2>2. o = Observation(sign, {}, {<<"proposal", sign>>})
    BY <1>2, <2>1 DEF Noticed
  <2>3. o.line = sign /\ o.rest = {} /\ Noted(o) = UNION {f[2] : f \in {<<"proposal", sign>>}}
    BY <2>2, ObservationFields
  <2>4. Noted(o) = sign
    BY <2>3
  <2> QED
    BY <1>2, <2>1, <2>3, <2>4
<1> QED
  BY <1>1, <1>2

LEMMA DecideWindow ==
    ASSUME ScriptInv, WindowInv, ScriptedDecide, NEW c, Tame(c), NEW d, Chosen(c, d)
    PROVE  /\ WindowInv' /\ gaveUp' = gaveUp
           /\ IF phase' = "ready" THEN Grows(window, window', Noticed(d)) ELSE window' = window
<1>1. gaveUp' = gaveUp
  BY DEF ScriptedDecide
<1>2. /\ d.action = c.action /\ phase' # "deciding"
      /\ phase' = "ready" => c.action \in {"final", "propose_reversal"}
  BY ReadyDecision DEF ScriptInv, LoopInv, TypeOK, Chosen
<1>3. CASE phase' # "ready"
  <2>1. window' = window
    BY <1>3 DEF Chosen
  <2> QED
    BY <1>1, <1>2, <1>3, <2>1 DEF WindowInv
<1>4. CASE phase' = "ready"
  <2>1. PICK o : o = Noticed(d)
    OBVIOUS
  <2>2. o.line \in SUBSET Sign /\ o.rest \in SUBSET Sign
    BY <1>2, <1>4, <2>1, NoticedIs DEF Sign
  <2>3. window' = Observed(window, meter'.iterations, o)
    BY <1>4, <2>1 DEF Chosen
  <2>4. meter'.iterations \in Nat
    BY LoopInvIsInductive, ScriptedStepIsAStep DEF ScriptInv, LoopInv, TypeOK, Meter, ScriptedNext
  <2>5. Grows(window, window', o)
    BY <2>2, <2>3, <2>4, ObservedGrows DEF WindowInv
  <2>6. WindowInv'
    BY <1>1, <1>4, <2>5 DEF WindowInv, Grows
  <2> QED
    BY <1>1, <1>4, <2>1, <2>5, <2>6
<1> QED
  BY <1>3, <1>4

\* Hearing of a tool or of the sub-agent adds a step.
LEMMA HearWindow ==
    ASSUME ScriptInv, WindowInv, NEW o, o.line \in SUBSET Sign, o.rest \in SUBSET Sign,
           Observes1(o), phase' # "deciding", UNCHANGED gaveUp
    PROVE  WindowInv' /\ Grows(window, window', o)
<1>1. window' = Observed(window, meter.iterations, o) /\ meter.iterations \in Nat
  BY DEF Observes1, ScriptInv, LoopInv, TypeOK, Meter
<1>2. Grows(window, window', o)
  BY <1>1, ObservedGrows DEF WindowInv
<1> QED
  BY <1>2 DEF WindowInv, Grows

-----------------------------------------------------------------------------
(* What is observed.                                                        *)

Status == {"no_reversal", "initiated", "credited"}

\* What a view may still show of a clause, or no more.
OfClauses == {"clause", "other_clause", "timeline", "sub_timeline"}

\* An observation says what is so, and hides nothing in its details but what was
\* read of clauses.
Truthful(o) ==
    /\ o.line \in SUBSET Sign /\ o.rest \in SUBSET Sign
    /\ o.rest \cup Noted(o) \subseteq o.line \cup OfClauses
    /\ {"clause", "sub_clause"} \cap (o.line \cup o.rest \cup Noted(o)) # {} =>
          TheClause \in clauses'
    /\ {"other_clause", "sub_other"} \cap (o.line \cup o.rest \cup Noted(o)) # {} =>
          ~(clauses' \subseteq {TheClause})
    /\ "txn" \in o.line => Txn \in seen' /\ "lookup" \in o.line /\ world.kind # "none"
    /\ "lookup" \in o.line /\ ~failed' /\ world.kind # "none" => "txn" \in o.line
    /\ "lookup_failed" \in o.line => failed'
    /\ Status \cap o.line \subseteq {world.reversal}

\* What answers a step shows that it was taken, and not that another one was.
Answers(action, line) ==
    \/ action = LookupTransaction /\ "lookup" \in line /\ line \subseteq {"lookup", "txn"}
    \/ action = ReversalStatus /\ line = {world.reversal}
    \/ action = SearchPolicy /\ "search" \in line
          /\ line \subseteq {"search", "clause", "other_clause"}
    \/ action = OpenTicket /\ line = {"ticket"}
    \/ action = "consult_policy" /\ "consulted" \in line
          /\ line \subseteq {"consulted", "sub_clause", "sub_other"}

\* An observation whose details add nothing, and that is not about clauses.
LEMMA PlainTruth ==
    ASSUME NEW o, o.rest = {}, Noted(o) \subseteq o.line,
           o.line \subseteq Sign \ {"clause", "sub_clause", "other_clause", "sub_other"},
           "txn" \in o.line => Txn \in seen' /\ "lookup" \in o.line /\ world.kind # "none",
           "lookup" \in o.line /\ ~failed' /\ world.kind # "none" => "txn" \in o.line,
           "lookup_failed" \in o.line => failed',
           Status \cap o.line \subseteq {world.reversal}
    PROVE  Truthful(o)
<1>1. o.line \in SUBSET Sign /\ o.rest \in SUBSET Sign
  OBVIOUS
<1>2. o.line \cup o.rest \cup Noted(o) = o.line
  OBVIOUS
<1>3. o.rest \cup Noted(o) \subseteq o.line
  OBVIOUS
<1> QED
  BY <1>1, <1>2, <1>3 DEF Truthful

LEMMA ToolFailedHears ==
    ASSUME NEW tool, NEW signs \in {{"lookup", "lookup_failed"}, {"search"}, {}},
           ToolFailed(tool, signs)
    PROVE  \E o : Observes1(o) /\ Truthful(o)
<1>1. PICK key : Observes1(Observation(signs, {}, {<<key, signs>>}))
  BY DEF ToolFailed
<1>2. PICK o : o = Observation(signs, {}, {<<key, signs>>})
  OBVIOUS
<1>3. o.line = signs /\ o.rest = {} /\ Noted(o) = UNION {f[2] : f \in {<<key, signs>>}}
  BY <1>2, ObservationFields
<1>4. Noted(o) = signs
  BY <1>3
<1>5. failed'
  BY DEF ToolFailed
<1>6. /\ signs \subseteq Sign \ {"clause", "sub_clause", "other_clause", "sub_other"}
      /\ "txn" \notin signs /\ Status \cap signs = {}
  BY DEF Sign, Status
<1>7. Truthful(o)
  BY <1>3, <1>4, <1>5, <1>6, PlainTruth
<1> QED
  BY <1>1, <1>2, <1>7

LEMMA LookedUpHears ==
    ASSUME LookedUpTxn
    PROVE  \E o : Observes1(o) /\ Truthful(o) /\ Answers(LookupTransaction, o.line)
<1>1. CASE world.kind = "none"
  <2>1. PICK o : o = Observation({"lookup"}, {}, {<<"txn", {"lookup"}>>})
    OBVIOUS
  <2>2. /\ o.line = {"lookup"} /\ o.rest = {}
        /\ Noted(o) = UNION {f[2] : f \in {<<"txn", {"lookup"}>>}}
    BY <2>1, ObservationFields
  <2>3. Noted(o) = {"lookup"}
    BY <2>2
  <2>4. Truthful(o)
    BY <1>1, <2>2, <2>3, PlainTruth DEF Sign, Status
  <2>5. Observes1(o)
    BY <1>1, <2>1 DEF LookedUpTxn
  <2> QED
    BY <2>2, <2>4, <2>5 DEF Answers
<1>2. CASE world.kind # "none"
  <2>1. PICK o : o = Observation({"lookup", "txn"}, {}, {<<"txn", {"txn"}>>})
    OBVIOUS
  <2>2. /\ o.line = {"lookup", "txn"} /\ o.rest = {}
        /\ Noted(o) = UNION {f[2] : f \in {<<"txn", {"txn"}>>}}
    BY <2>1, ObservationFields
  <2>3. Noted(o) = {"txn"}
    BY <2>2
  <2>4. Observes1(o) /\ Txn \in seen'
    BY <1>2, <2>1 DEF LookedUpTxn
  <2>5. Truthful(o)
    BY <1>2, <2>2, <2>3, <2>4, PlainTruth DEF Sign, Status
  <2> QED
    BY <2>2, <2>4, <2>5 DEF Answers
<1> QED
  BY <1>1, <1>2

\* What shows one sign, in its line and as a fact.
LEMMA OneSignHears ==
    ASSUME NEW sign \in {"ticket"} \cup {world.reversal}, NEW key, Asked,
           Observes1(Observation({sign}, {}, {<<key, {sign}>>}))
    PROVE  \E o : Observes1(o) /\ Truthful(o) /\ o.line = {sign}
<1>1. PICK o : o = Observation({sign}, {}, {<<key, {sign}>>})
  OBVIOUS
<1>2. o.line = {sign} /\ o.rest = {} /\ Noted(o) = UNION {f[2] : f \in {<<key, {sign}>>}}
  BY <1>1, ObservationFields
<1>3. Noted(o) = {sign}
  BY <1>2
<1>4. world.reversal \in Status
  BY DEF Asked, World, Status
<1>5. Truthful(o)
  BY <1>2, <1>3, <1>4, PlainTruth DEF Sign, Status
<1> QED
  BY <1>1, <1>2, <1>5

LEMMA FoundHears ==
    ASSUME Observes1(Found), world.best \in world.found, world.found \subseteq clauses'
    PROVE  \E o : Observes1(o) /\ Truthful(o) /\ Answers(SearchPolicy, o.line)
<1>1. PICK o : o = Found
  OBVIOUS
<1>2. PICK line, rest, keyed :
         /\ line = {"search", IF world.best = TheClause THEN "clause" ELSE "other_clause"}
         /\ rest = UNION {FoundClause(c) : c \in world.found}
         /\ keyed = {<<IF c = TheClause THEN "clause" ELSE "other", FoundClause(c)>> :
                        c \in world.found}
         /\ o = Observation(line, rest, keyed)
  BY <1>1 DEF Found
<1>3. o.line = line /\ o.rest = rest /\ Noted(o) = UNION {f[2] : f \in keyed}
  BY <1>2, ObservationFields
<1>4. ASSUME NEW sign \in Noted(o) PROVE sign \in rest
  <2>1. PICK f \in keyed : sign \in f[2]
    BY <1>3, <1>4
  <2>2. PICK c \in world.found :
           f = <<IF c = TheClause THEN "clause" ELSE "other", FoundClause(c)>>
    BY <1>2, <2>1
  <2>3. f[2] = FoundClause(c)
    BY <2>2
  <2> QED
    BY <1>2, <2>1, <2>3
<1>5. ASSUME NEW c \in world.found, NEW sign \in FoundClause(c)
      PROVE  /\ sign \in OfClauses \cap Sign /\ sign # "sub_clause" /\ sign # "sub_other"
             /\ sign = "clause" => TheClause \in clauses'
             /\ sign = "other_clause" => ~(clauses' \subseteq {TheClause})
  BY <1>5 DEF FoundClause, OfClauses, Sign
<1>6. ASSUME NEW sign \in rest
      PROVE  /\ sign \in OfClauses \cap Sign /\ sign # "sub_clause" /\ sign # "sub_other"
             /\ sign = "clause" => TheClause \in clauses'
             /\ sign = "other_clause" => ~(clauses' \subseteq {TheClause})
  BY <1>2, <1>5, <1>6
<1>7. /\ line \subseteq {"search", "clause", "other_clause"}
      /\ "clause" \in line => TheClause \in clauses'
      /\ "other_clause" \in line => ~(clauses' \subseteq {TheClause})
  BY <1>2
<1>8. line \in SUBSET Sign /\ Status \cap line = {}
  BY <1>7 DEF Sign, Status
<1>9. Truthful(o)
  BY <1>3, <1>4, <1>6, <1>7, <1>8 DEF Truthful
<1>10. Answers(SearchPolicy, line)
  BY <1>2, <1>7 DEF Answers
<1> QED
  BY <1>1, <1>3, <1>9, <1>10

LEMMA CalledHears ==
    ASSUME Asked, ScriptedCalled
    PROVE  \E o : Observes1(o) /\ Truthful(o) /\ (~failed' => Answers(meter.last[1], o.line))
<1>1. PICK tool : tool = meter.last[1]
  OBVIOUS
<1>2. ASSUME NEW signs, ToolFailed(tool, signs),
             signs = CASE tool = LookupTransaction -> {"lookup", "lookup_failed"}
                       [] tool = SearchPolicy -> {"search"}
                       [] OTHER -> {}
      PROVE  failed' /\ \E o : Observes1(o) /\ Truthful(o)
  <2>1. signs \in {{"lookup", "lookup_failed"}, {"search"}, {}}
    BY <1>2
  <2> QED
    BY <1>2, <2>1, ToolFailedHears DEF ToolFailed
<1>3. ASSUME tool = LookupTransaction, LookedUpTxn
      PROVE  \E o : Observes1(o) /\ Truthful(o) /\ Answers(tool, o.line)
  BY <1>3, LookedUpHears
<1>4. ASSUME tool = ReversalStatus,
             Observes1(Observation({world.reversal}, {}, {<<"reversal", {world.reversal}>>}))
      PROVE  \E o : Observes1(o) /\ Truthful(o) /\ Answers(tool, o.line)
  <2>1. PICK sign : sign = world.reversal
    OBVIOUS
  <2>2. Observes1(Observation({sign}, {}, {<<"reversal", {sign}>>}))
    BY <1>4, <2>1
  <2>3. PICK o : Observes1(o) /\ Truthful(o) /\ o.line = {sign}
    BY <2>1, <2>2, OneSignHears
  <2> QED
    BY <1>4, <2>1, <2>3 DEF Answers
<1>5. ASSUME tool = SearchPolicy, clauses' = clauses \cup world.found, Observes1(Found)
      PROVE  \E o : Observes1(o) /\ Truthful(o) /\ Answers(tool, o.line)
  BY <1>5, FoundHears DEF Asked
<1>6. ASSUME tool = OpenTicket, Observes1(Observation({"ticket"}, {}, {<<"ticket", {"ticket"}>>}))
      PROVE  \E o : Observes1(o) /\ Truthful(o) /\ Answers(tool, o.line)
  <2>1. PICK sign : sign = "ticket"
    OBVIOUS
  <2>2. Observes1(Observation({sign}, {}, {<<"ticket", {sign}>>}))
    BY <1>6, <2>1
  <2>3. PICK o : Observes1(o) /\ Truthful(o) /\ o.line = {sign}
    BY <2>1, <2>2, OneSignHears
  <2> QED
    BY <1>6, <2>1, <2>3 DEF Answers
<1> QED
  BY <1>1, <1>2, <1>3, <1>4, <1>5, <1>6 DEF ScriptedCalled

LEMMA ConsultedHears ==
    ASSUME ScriptedConsulted
    PROVE  \E o : Observes1(o) /\ Truthful(o) /\ Answers("consult_policy", o.line)
<1>1. PICK cited : clauses' = clauses \cup cited /\ Consults(cited)
  BY DEF ScriptedConsulted
<1>2. PICK told, line, rest, keyed :
         /\ line = {"consulted"} \cup (IF TheClause \in cited THEN {"sub_clause"} ELSE {})
                             \cup (IF cited \ {TheClause} # {} THEN {"sub_other"} ELSE {})
         /\ rest = IF told THEN {"sub_timeline"} ELSE {}
         /\ keyed = {<<IF c = TheClause THEN "clause" ELSE "other", {"consulted"}>> : c \in cited}
         /\ Observes1(Observation(line, rest, keyed))
  BY <1>1 DEF Consults
<1>3. PICK o : o = Observation(line, rest, keyed)
  OBVIOUS
<1>4. o.line = line /\ o.rest = rest /\ Noted(o) = UNION {f[2] : f \in keyed}
  BY <1>3, ObservationFields
<1>5. Noted(o) \subseteq {"consulted"}
  BY <1>2, <1>4
<1>6. /\ "consulted" \in line /\ line \subseteq {"consulted", "sub_clause", "sub_other"}
      /\ "sub_clause" \in line => TheClause \in clauses'
      /\ "sub_other" \in line => ~(clauses' \subseteq {TheClause})
      /\ rest \subseteq {"sub_timeline"}
  BY <1>1, <1>2
<1>7. line \in SUBSET Sign /\ rest \in SUBSET Sign /\ Status \cap line = {}
  BY <1>6 DEF Sign, Status
<1>8. PICK all : all = o.line \cup o.rest \cup Noted(o)
  OBVIOUS
<1>9. /\ all \subseteq {"consulted", "sub_clause", "sub_other", "sub_timeline"}
      /\ "sub_clause" \in all => "sub_clause" \in line
      /\ "sub_other" \in all => "sub_other" \in line
  BY <1>4, <1>5, <1>6, <1>8
<1>10. /\ {"clause", "sub_clause"} \cap all # {} => TheClause \in clauses'
       /\ {"other_clause", "sub_other"} \cap all # {} => ~(clauses' \subseteq {TheClause})
  BY <1>6, <1>9
<1>11. /\ o.rest \cup Noted(o) \subseteq o.line \cup OfClauses
       /\ "txn" \notin o.line /\ "lookup" \notin o.line /\ "lookup_failed" \notin o.line
  BY <1>4, <1>5, <1>6 DEF OfClauses
<1>12. Truthful(o)
  BY <1>4, <1>7, <1>8, <1>10, <1>11 DEF Truthful
<1> QED
  BY <1>2, <1>3, <1>4, <1>6, <1>12 DEF Answers

-----------------------------------------------------------------------------
(* The ticket that memory recalled.                                         *)

LEMMA WindowInit ==
    ASSUME ScriptedInit
    PROVE  /\ WindowInv
           /\ \A sign \in Known(window) : sign = "ticket" /\ sign \in Lasting(window)
           /\ world.recalled => "ticket" \in Lasting(window)
<1>1. window = NewWindow /\ gaveUp = 0 /\ phase = "begin"
  BY DEF ScriptedInit, Init
<1>2. PICK Obs : Obs = [at : Nat, line : SUBSET Sign, signs : SUBSET Sign]
  OBVIOUS
<1>3. PICK x, y, obs : /\ x = [at |-> 0, line |-> {"ticket"}, signs |-> {"ticket"}]
                       /\ y = [at |-> 0, line |-> {}, signs |-> {}]
                       /\ obs = IF world.recalled THEN <<x, y>> ELSE <<>>
  OBVIOUS
<1>4. window = [observations |-> obs, summary |-> <<>>, facts |-> {}]
  BY <1>1, <1>3 DEF NewWindow
<1>5. x \in Obs /\ y \in Obs
  BY <1>2, <1>3 DEF Sign
<1>6. obs \in Seq(Obs) /\ <<>> \in Seq(SUBSET Sign)
  BY <1>3, <1>5
<1>7. window \in Windows(window.facts)
  BY <1>2, <1>4, <1>6 DEF Windows
<1>8. ASSUME NEW i \in 1 .. Len(obs)
      PROVE  obs[i].line = obs[i].signs /\ obs[i].signs \subseteq {"ticket"}
  <2>1. CASE world.recalled
    <3>1. obs = <<x, y>>
      BY <1>3, <2>1
    <3>2. Len(obs) = 2 /\ obs[1] = x /\ obs[2] = y
      BY <3>1
    <3>3. i = 1 \/ i = 2
      BY <3>2
    <3>4. x.line = x.signs /\ x.signs = {"ticket"} /\ y.line = y.signs /\ y.signs = {}
      BY <1>3
    <3> QED
      BY <3>2, <3>3, <3>4
  <2>2. CASE ~world.recalled
    <3>1. Len(obs) = 0
      BY <1>3, <2>2
    <3> QED
      BY <3>1
  <2> QED
    BY <2>1, <2>2
<1>9. /\ window.observations = obs /\ window.summary = <<>> /\ window.facts = {}
      /\ Len(window.summary) = 0 /\ 1 .. 0 = {}
  BY <1>4
<1>10. SoundWindow(window)
  BY <1>7, <1>8, <1>9 DEF SoundWindow
<1>11. ASSUME NEW sign \in Known(window)
       PROVE  sign = "ticket" /\ sign \in Lasting(window)
  <2>1. \/ \E i \in 1 .. Len(obs) : sign \in obs[i].signs
        \/ \E k \in 1 .. 0 : sign \in window.summary[k]
        \/ \E f \in {} : sign \in f.signs
    BY <1>7, <1>9, <1>11, KnownIs
  <2>2. PICK i \in 1 .. Len(obs) : sign \in obs[i].signs
    BY <1>9, <2>1
  <2>3. sign \in Lasting(window)
    BY <1>7, <1>8, <1>9, <2>2, LastingIs
  <2> QED
    BY <1>8, <2>2, <2>3
<1>12. ASSUME world.recalled PROVE "ticket" \in Lasting(window)
  <2>1. 1 \in 1 .. Len(obs) /\ obs[1] = x
    <3>1. obs = <<x, y>>
      BY <1>3, <1>12
    <3> QED
      BY <3>1
  <2>2. "ticket" \in x.line
    BY <1>3
  <2> QED
    BY <1>7, <1>9, <2>1, <2>2, LastingIs
<1> QED
  BY <1>1, <1>10, <1>11, <1>12 DEF WindowInv

\* Nothing that lasts is ever gone.
LEMMA WindowStep ==
    ASSUME ScriptInv, WindowInv, [ScriptedNext]_scriptedVars
    PROVE  /\ WindowInv' /\ Lasting(window) \subseteq Lasting(window')
           /\ gaveUp' < 2 => gaveUp < 2
<1>1. CASE ScriptedBegin \/ UNCHANGED scriptedVars
  <2>1. UNCHANGED <<gaveUp, window, view>> /\ (phase' = phase \/ phase' # "deciding")
    BY <1>1 DEF ScriptedBegin, Begin, Ends, GoesOn, scriptedVars, vars
  <2> QED
    BY <2>1 DEF WindowInv
<1>2. CASE ScriptedAsk
  BY <1>2, AskWindow
<1>3. CASE ScriptedDecide
  <2>1. PICK c, d : Tame(c) /\ Chosen(c, d)
    BY <1>3, ScriptedDecision DEF ScriptInv
  <2> QED
    BY <1>3, <2>1, DecideWindow DEF Grows
<1>4. ASSUME NEW o, Observes1(o), Truthful(o), phase' # "deciding", UNCHANGED gaveUp
      PROVE  /\ WindowInv' /\ Lasting(window) \subseteq Lasting(window')
             /\ gaveUp' < 2 => gaveUp < 2
  BY <1>4, HearWindow DEF Truthful, Grows
<1>5. CASE ScriptedCalled
  <2>1. phase' # "deciding" /\ UNCHANGED gaveUp
    BY <1>5 DEF ScriptedCalled, Called, GoesOn
  <2> QED
    BY <1>4, <1>5, <2>1, CalledHears DEF ScriptInv
<1>6. CASE ScriptedConsulted
  <2>1. phase' # "deciding" /\ UNCHANGED gaveUp
    BY <1>6 DEF ScriptedConsulted, Consulted, GoesOn
  <2> QED
    BY <1>4, <1>6, <2>1, ConsultedHears
<1> QED
  BY <1>1, <1>2, <1>3, <1>5, <1>6 DEF ScriptedNext

TicketInv ==
    /\ calls \in [{LookupTransaction, OpenTicket} -> Nat]
    /\ world.recalled =>
          /\ "ticket" \in Lasting(window)
          /\ gaveUp < 2 => calls[OpenTicket] = 0

\* Only a call counts, of the tool that was chosen.
LEMMA CallsChange ==
    ASSUME ScriptInv, calls \in [{LookupTransaction, OpenTicket} -> Nat],
           NEW c, Tame(c), NEW d, Chosen(c, d)
    PROVE  /\ calls' \in [{LookupTransaction, OpenTicket} -> Nat]
           /\ calls'[OpenTicket] = IF phase' = "calling" /\ c.action = OpenTicket
                                   THEN calls[OpenTicket] + 1 ELSE calls[OpenTicket]
           /\ calls'[LookupTransaction] = IF phase' = "calling" /\ c.action = LookupTransaction
                                          THEN calls[LookupTransaction] + 1
                                          ELSE calls[LookupTransaction]
<1>1. d.action = c.action
  BY DEF Chosen
<1>2. CASE phase' = "calling" /\ d.action \in {LookupTransaction, OpenTicket}
  <2>1. calls' = [calls EXCEPT ![d.action] = @ + 1]
    BY <1>2 DEF Chosen
  <2> QED
    BY <1>1, <1>2, <2>1, ScriptedAssumption
<1>3. CASE ~(phase' = "calling" /\ d.action \in {LookupTransaction, OpenTicket})
  <2>1. calls' = calls
    BY <1>3 DEF Chosen
  <2> QED
    BY <1>1, <1>3, <2>1
<1> QED
  BY <1>2, <1>3

LEMMA TicketStep ==
    ASSUME ScriptInv, WindowInv, TicketInv, [ScriptedNext]_scriptedVars
    PROVE  TicketInv'
<1>1. Lasting(window) \subseteq Lasting(window') /\ (gaveUp' < 2 => gaveUp < 2)
  BY WindowStep
<1>2. world' = world
  BY DEF ScriptedNext, ScriptedBegin, ScriptedAsk, ScriptedDecide, ScriptedCalled,
     ScriptedConsulted, Fixed, scriptedVars
<1>3. CASE UNCHANGED calls
  BY <1>1, <1>2, <1>3 DEF TicketInv
<1>4. CASE ScriptedDecide
  <2>1. PICK c, d : Tame(c) /\ Chosen(c, d)
    BY <1>4, ScriptedDecision DEF ScriptInv
  <2>2. calls' \in [{LookupTransaction, OpenTicket} -> Nat]
    BY <2>1, CallsChange DEF TicketInv
  <2>3. ASSUME world.recalled, gaveUp' < 2 PROVE calls'[OpenTicket] = 0
    <3>1. "ticket" \in view /\ calls[OpenTicket] = 0
      BY <1>1, <1>4, <2>3 DEF ScriptedDecide, WindowInv, TicketInv
    <3>2. CASE phase' = "calling" /\ c.action = OpenTicket
      <4>1. c.action \notin KernelAction
        BY <3>2, LoopAssumption, ScriptedAssumption
      <4> QED
        BY <2>1, <3>1, <3>2, <4>1, ScriptedAssumption DEF Tame, KernelAction
    <3>3. CASE ~(phase' = "calling" /\ c.action = OpenTicket)
      BY <2>1, <3>1, <3>3, CallsChange DEF TicketInv
    <3> QED
      BY <3>2, <3>3
  <2> QED
    BY <1>1, <1>2, <2>2, <2>3 DEF TicketInv
<1>5. UNCHANGED calls \/ ScriptedDecide
  BY DEF ScriptedNext, ScriptedBegin, ScriptedAsk, ScriptedCalled, ScriptedConsulted,
     scriptedVars
<1> QED
  BY <1>3, <1>4, <1>5

LEMMA WindowInvariant == ScriptedSpec => []WindowInv
<1>1. ScriptedInit => WindowInv
  BY WindowInit
<1>2. ScriptInv /\ WindowInv /\ [ScriptedNext]_scriptedVars => WindowInv'
  BY WindowStep
<1> QED
  BY <1>1, <1>2, ScriptInvariant, PTL DEF ScriptedSpec

LEMMA TicketInvariant == ScriptedSpec => []TicketInv
<1>1. ScriptedInit => TicketInv
  <2> SUFFICES ASSUME ScriptedInit PROVE TicketInv
    OBVIOUS
  <2>1. calls = [t \in {LookupTransaction, OpenTicket} |-> 0]
    BY DEF ScriptedInit
  <2> QED
    BY <2>1, WindowInit DEF TicketInv
<1>2. ScriptInv /\ WindowInv /\ TicketInv /\ [ScriptedNext]_scriptedVars => TicketInv'
  BY TicketStep
<1> QED
  BY <1>1, <1>2, ScriptInvariant, WindowInvariant, PTL DEF ScriptedSpec

\* "So a returning customer ... doesn't get a second ticket": as long as no summary
\* had to be given up, the ticket that memory recalled is still in what the policy
\* reads, however many steps were compacted (ContextWindow.render, _ticket_first).
THEOREM NeverASecondTicket == ScriptedSpec => []NoSecondTicket
<1>1. TicketInv => NoSecondTicket
  BY DEF TicketInv, NoSecondTicket
<1> QED
  BY <1>1, TicketInvariant, PTL

-----------------------------------------------------------------------------
(* What the signs say is so.                                                *)

SignsMean ==
    /\ Known(window) \subseteq Lasting(window) \cup OfClauses
    /\ {"clause", "sub_clause"} \cap Known(window) # {} => TheClause \in clauses
    /\ {"other_clause", "sub_other"} \cap Known(window) # {} => ~(clauses \subseteq {TheClause})
    /\ "txn" \in Lasting(window) =>
          Txn \in seen /\ "lookup" \in Lasting(window) /\ world.kind # "none"
    /\ "lookup" \in Lasting(window) /\ ~failed /\ world.kind # "none" =>
          "txn" \in Lasting(window)
    /\ "lookup_failed" \in Lasting(window) => failed
    /\ Status \cap Lasting(window) \subseteq {world.reversal}

LEMMA NothingIsForgotten ==
    ASSUME ScriptInv, [ScriptedNext]_scriptedVars
    PROVE  /\ seen \subseteq seen' /\ clauses \subseteq clauses' /\ (failed => failed')
           /\ UNCHANGED <<config, rung, intent, world>>
<1>1. UNCHANGED <<config, rung, intent, world>>
  BY DEF ScriptedNext, ScriptedBegin, Begin, ScriptedAsk, Ask, ScriptedDecide, ScriptedCalled,
     Called, ScriptedConsulted, Consulted, Fixed, scriptedVars, vars
<1>2. CASE ScriptedDecide
  <2>1. PICK c, d : Tame(c) /\ Chosen(c, d)
    BY <1>2, ScriptedDecision DEF ScriptInv
  <2>2. PICK m : Decides(d, m)
    BY <2>1 DEF Chosen
  <2>3. seen \subseteq seen' /\ clauses \subseteq clauses'
    <3>1. CASE Finish(d, m)
      BY <3>1 DEF Finish, Draft, Accepted, Feedback, Quotes, Unheard
    <3>2. CASE Propose(d, m)
      BY <3>2 DEF Propose, ProposalValid, ProposalRefused, ProposalFails, Unheard
    <3>3. CASE Handoff(d, m) \/ Refuse(d, m) \/ Call(d, m)
      BY <3>3 DEF Handoff, Refuse, Call, Unheard
    <3> QED
      BY <2>2, <3>1, <3>2, <3>3 DEF Decides
  <2> QED
    BY <1>1, <1>2, <2>3 DEF ScriptedDecide
<1>3. CASE ScriptedCalled
  <2>1. seen \subseteq seen' /\ clauses \subseteq clauses'
    BY <1>3 DEF ScriptedCalled, Called, Observes
  <2>2. failed => failed'
    BY <1>3 DEF ScriptedCalled, ToolFailed
  <2> QED
    BY <1>1, <2>1, <2>2
<1>4. CASE ScriptedConsulted
  <2>1. seen \subseteq seen' /\ clauses \subseteq clauses'
    BY <1>4 DEF ScriptedConsulted, Consulted, Observes
  <2>2. failed => failed'
    BY <1>4 DEF ScriptedConsulted
  <2> QED
    BY <1>1, <2>1, <2>2
<1>5. CASE ScriptedBegin \/ ScriptedAsk \/ UNCHANGED scriptedVars
  <2>1. UNCHANGED <<seen, clauses, failed>>
    BY <1>5 DEF ScriptedBegin, Begin, ScriptedAsk, Ask, Unheard, scriptedVars, vars
  <2> QED
    BY <1>1, <2>1
<1> QED
  BY <1>2, <1>3, <1>4, <1>5 DEF ScriptedNext

LEMMA SignsGrow ==
    ASSUME SignsMean, NEW o, Grows(window, window', o), Truthful(o),
           seen \subseteq seen', clauses \subseteq clauses', failed => failed', world' = world
    PROVE  SignsMean'
<1>1. PICK la, kn, la2, kn2, all :
         /\ la = Lasting(window) /\ kn = Known(window)
         /\ la2 = Lasting(window') /\ kn2 = Known(window')
         /\ all = o.line \cup o.rest \cup Noted(o)
  OBVIOUS
<1>2. la2 = la \cup o.line /\ kn2 \subseteq kn \cup all
  BY <1>1 DEF Grows
<1>3. kn2 \subseteq la2 \cup OfClauses
  BY <1>1, <1>2 DEF SignsMean, Truthful
<1>4. {"clause", "sub_clause"} \cap kn2 # {} => TheClause \in clauses'
  BY <1>1, <1>2 DEF SignsMean, Truthful
<1>5. {"other_clause", "sub_other"} \cap kn2 # {} => ~(clauses' \subseteq {TheClause})
  BY <1>1, <1>2 DEF SignsMean, Truthful
<1>6. "txn" \in la2 => Txn \in seen' /\ "lookup" \in la2 /\ world.kind # "none"
  BY <1>1, <1>2 DEF SignsMean, Truthful
<1>7. "lookup" \in la2 /\ ~failed' /\ world.kind # "none" => "txn" \in la2
  BY <1>1, <1>2 DEF SignsMean, Truthful
<1>8. "lookup_failed" \in la2 => failed'
  BY <1>1, <1>2 DEF SignsMean, Truthful
<1>9. Status \cap la2 \subseteq {world.reversal}
  BY <1>1, <1>2 DEF SignsMean, Truthful
<1> QED
  BY <1>1, <1>3, <1>4, <1>5, <1>6, <1>7, <1>8, <1>9 DEF SignsMean

LEMMA SignsStay ==
    ASSUME SignsMean, Lasting(window') = Lasting(window), Known(window') \subseteq Known(window),
           seen \subseteq seen', clauses \subseteq clauses', failed' = failed, world' = world
    PROVE  SignsMean'
<1>1. PICK la, kn, kn2 : /\ la = Lasting(window) /\ kn = Known(window) /\ kn2 = Known(window')
                         /\ la = Lasting(window')
  OBVIOUS
<1>2. kn2 \subseteq kn
  BY <1>1
<1>3. kn2 \subseteq la \cup OfClauses
  BY <1>1, <1>2 DEF SignsMean
<1>4. /\ {"clause", "sub_clause"} \cap kn2 # {} => TheClause \in clauses'
      /\ {"other_clause", "sub_other"} \cap kn2 # {} => ~(clauses' \subseteq {TheClause})
  BY <1>1, <1>2 DEF SignsMean
<1>5. /\ "txn" \in la => Txn \in seen' /\ "lookup" \in la /\ world.kind # "none"
      /\ "lookup" \in la /\ ~failed' /\ world.kind # "none" => "txn" \in la
      /\ "lookup_failed" \in la => failed'
      /\ Status \cap la \subseteq {world.reversal}
  BY <1>1 DEF SignsMean
<1> QED
  BY <1>1, <1>3, <1>4, <1>5 DEF SignsMean

\* What a decision leaves in the window is so.
LEMMA NoticedIsTrue ==
    ASSUME Asked, NEW d, d.action \in {"final", "propose_reversal"}, phase' = "ready"
    PROVE  Truthful(Noticed(d))
<1>1. PICK o : o = Noticed(d)
  OBVIOUS
<1>2. /\ o.line \subseteq {"rejected", "no_handoff", "refused"}
      /\ o.rest = {} /\ Noted(o) \subseteq o.line
  BY <1>1, NoticedIs
<1>3. /\ o.line \subseteq Sign \ {"clause", "sub_clause", "other_clause", "sub_other"}
      /\ "txn" \notin o.line /\ "lookup" \notin o.line /\ "lookup_failed" \notin o.line
      /\ Status \cap o.line = {}
  BY <1>2 DEF Sign, Status
<1> QED
  BY <1>1, <1>2, <1>3, PlainTruth

LEMMA SignsStep ==
    ASSUME ScriptInv, WindowInv, SignsMean, [ScriptedNext]_scriptedVars
    PROVE  SignsMean'
<1>1. /\ seen \subseteq seen' /\ clauses \subseteq clauses' /\ (failed => failed')
      /\ world' = world
  BY NothingIsForgotten
<1>2. CASE ScriptedBegin \/ UNCHANGED scriptedVars
  <2>1. window' = window /\ failed' = failed
    BY <1>2 DEF ScriptedBegin, scriptedVars
  <2> QED
    BY <1>1, <2>1, SignsStay
<1>3. CASE ScriptedAsk
  <2>1. failed' = failed
    BY <1>3 DEF ScriptedAsk
  <2> QED
    BY <1>1, <1>3, <2>1, AskWindow, SignsStay
<1>4. CASE ScriptedDecide
  <2>1. PICK c, d : Tame(c) /\ Chosen(c, d)
    BY <1>4, ScriptedDecision DEF ScriptInv
  <2>2. failed' = failed
    BY <1>4 DEF ScriptedDecide
  <2>3. CASE phase' # "ready"
    BY <1>1, <1>4, <2>1, <2>2, <2>3, DecideWindow, SignsStay
  <2>4. CASE phase' = "ready"
    <3>1. d.action \in {"final", "propose_reversal"}
      BY <2>1, <2>4, ReadyDecision DEF ScriptInv, LoopInv, TypeOK, Chosen
    <3>2. Truthful(Noticed(d))
      BY <2>4, <3>1, NoticedIsTrue DEF ScriptInv
    <3> QED
      BY <1>1, <1>4, <2>1, <2>4, <3>2, DecideWindow, SignsGrow
  <2> QED
    BY <2>3, <2>4
<1>5. ASSUME NEW o, Observes1(o), Truthful(o), phase' # "deciding", UNCHANGED gaveUp
      PROVE  SignsMean'
  <2>1. Grows(window, window', o)
    BY <1>5, HearWindow DEF Truthful
  <2> QED
    BY <1>1, <1>5, <2>1, SignsGrow
<1>6. CASE ScriptedCalled
  <2>1. phase' # "deciding" /\ UNCHANGED gaveUp
    BY <1>6 DEF ScriptedCalled, Called, GoesOn
  <2> QED
    BY <1>5, <1>6, <2>1, CalledHears DEF ScriptInv
<1>7. CASE ScriptedConsulted
  <2>1. phase' # "deciding" /\ UNCHANGED gaveUp
    BY <1>7 DEF ScriptedConsulted, Consulted, GoesOn
  <2> QED
    BY <1>5, <1>7, <2>1, ConsultedHears
<1> QED
  BY <1>2, <1>3, <1>4, <1>6, <1>7 DEF ScriptedNext

LEMMA SignsInvariant == ScriptedSpec => []SignsMean
<1>1. ScriptedInit => SignsMean
  <2> SUFFICES ASSUME ScriptedInit PROVE SignsMean
    OBVIOUS
  <2>1. PICK la, kn : la = Lasting(window) /\ kn = Known(window)
    OBVIOUS
  <2>2. la \subseteq kn /\ \A sign \in kn : sign = "ticket" /\ sign \in la
    BY <2>1, WindowInit, LastingIsKnown DEF WindowInv
  <2> QED
    BY <2>1, <2>2 DEF SignsMean, Status
<1>2. ScriptInv /\ WindowInv /\ SignsMean /\ [ScriptedNext]_scriptedVars => SignsMean'
  BY SignsStep
<1> QED
  BY <1>1, <1>2, ScriptInvariant, WindowInvariant, PTL DEF ScriptedSpec

-----------------------------------------------------------------------------
(* The steps of a run, none of which is taken twice.                        *)

Step == Tool \cup {"consult_policy", "final", "propose_reversal"}

\* These signs show that a step was taken; a ticket may have been opened earlier,
\* and is counted.
Shows(signs, step) ==
    \/ step = LookupTransaction /\ "lookup" \in signs
    \/ step = ReversalStatus /\ Status \cap signs # {}
    \/ step = SearchPolicy /\ "search" \in signs
    \/ step = "consult_policy" /\ "consulted" \in signs
    \/ step = "final" /\ "rejected" \in signs
    \/ step = "propose_reversal" /\ {"refused", "no_handoff"} \cap signs # {}

InHand(step) == phase \in {"calling", "consulting"} /\ meter.last[1] = step

Taken ==
    {step \in Step : IF step = OpenTicket THEN calls[OpenTicket] > 0
                     ELSE Shows(Lasting(window), step) \/ InHand(step)}

\* Which steps are called for at all depends on who asks what, and how things are.
OfMoney == intent \in {"refund_status", "refund_request", "payment_status"}

OnItsWay ==
    world.kind = "duplicate" /\ world.reversal = "initiated" /\ ReversalStatus \in config.tools

Remembers == OfMoney /\ (world.kind = "returning" \/ OnItsWay)

Repairs == OfMoney /\ (world.kind = "overdue" \/ (world.kind = "duplicate" /\ ~OnItsWay))

WantsClause == intent = "policy_question" \/ (config.verifiers /\ Remembers)

CalledFor(step) ==
    \/ step = LookupTransaction /\ OfMoney
    \/ step = ReversalStatus /\ OfMoney /\ world.kind = "duplicate"
          /\ ReversalStatus \in config.tools
    \/ step = SearchPolicy /\ SearchPolicy \in config.tools /\ WantsClause
    \/ step = "consult_policy" /\ config.subagents /\ WantsClause
    \/ step = "final" /\ config.verifiers /\ Remembers
    \/ step = "propose_reversal" /\ Repairs
    \/ step = OpenTicket /\ OfMoney /\ world.kind = "none"

\* Every pass took a step that was called for, and another one each time; it has
\* left its sign, or is in hand, and is paid for.
Counts ==
    /\ Taken \subseteq {step \in Step : CalledFor(step)}
    /\ meter.iterations <= Cardinality(Taken)
    /\ meter.verifier_retries <= IF Shows(Lasting(window), "final") THEN 1 ELSE 0
    /\ meter.spent <= meter.iterations
          + (IF Shows(Lasting(window), "consult_policy") THEN MaxCharge ELSE 0)
    /\ meter.seconds <= MaxWait * (IF phase \in {"calling", "consulting"}
                                   THEN meter.iterations - 1 ELSE meter.iterations)
    /\ meter.streak <= 1
    /\ meter.last # None => meter.last[1] \in Taken
    /\ calls[OpenTicket] > 0 => "ticket" \in Lasting(window) \/ InHand(OpenTicket)
    /\ phase \in {"calling", "consulting"} => meter.last # None /\ meter.iterations > 0
    /\ phase = "consulting" =>
          meter.last[1] = "consult_policy" /\ ~Shows(Lasting(window), "consult_policy")

Untroubled == gaveUp < 2 /\ ~failed /\ ~world.unsayable

CleanInv ==
    /\ rung \in 1 .. 5
    /\ config = Narrowed(RungLayers(rung), WORKFLOWS[intent])
    /\ Untroubled => IF phase = "ended" THEN stop \in {"done", "needs_human"} ELSE Counts

\* The budgets leave room for the steps, as those of LoopBudget do: eight passes,
\* two retries, a stall at the third repetition; and no await takes too long.
Ample ==
    /\ MaxIterations >= 6 /\ MaxSpend > 5 + MaxCharge /\ MaxSeconds > 5 * MaxWait
    /\ MaxVerifierRetries >= 1 /\ StallRepeats >= 2

LEMMA StepsDiffer ==
    /\ IsFiniteSet(Step)
    /\ LookupTransaction \in Step /\ ReversalStatus \in Step /\ SearchPolicy \in Step
    /\ OpenTicket \in Step
    /\ OpenTicket \notin {LookupTransaction, ReversalStatus, SearchPolicy} \cup KernelAction
    /\ LookupTransaction \notin {ReversalStatus, SearchPolicy} \cup KernelAction
    /\ ReversalStatus \notin {SearchPolicy} \cup KernelAction
    /\ SearchPolicy \notin KernelAction
<1>1. PICK kernel : kernel = {"consult_policy", "final", "propose_reversal"}
  OBVIOUS
<1>2. IsFiniteSet(kernel)
  <2>1. /\ IsFiniteSet({"consult_policy"}) /\ IsFiniteSet({"final"})
        /\ IsFiniteSet({"propose_reversal"})
    BY FS_Singleton
  <2>2. kernel = ({"consult_policy"} \cup {"final"}) \cup {"propose_reversal"}
    BY <1>1
  <2> QED
    BY <2>1, <2>2, FS_Union
<1>3. IsFiniteSet(Tool)
  <2>1. /\ IsFiniteSet({LookupTransaction}) /\ IsFiniteSet({ReversalStatus})
        /\ IsFiniteSet({SearchPolicy}) /\ IsFiniteSet({OpenTicket})
    BY FS_Singleton
  <2>2. Tool = ({LookupTransaction} \cup {ReversalStatus}) \cup ({SearchPolicy} \cup {OpenTicket})
    BY ScriptedAssumption
  <2> QED
    BY <2>1, <2>2, FS_Union
<1>4. IsFiniteSet(Step)
  BY <1>1, <1>2, <1>3, FS_Union DEF Step
<1> QED
  BY <1>4, ScriptedAssumption, LoopAssumption DEF Step, KernelAction

\* A set of a few elements.
LEMMA AtMost ==
    ASSUME NEW a, NEW b, NEW c, NEW d, NEW e
    PROVE  /\ IsFiniteSet({a, b}) /\ Cardinality({a, b}) <= 2
           /\ IsFiniteSet({a, b, c}) /\ Cardinality({a, b, c}) <= 3
           /\ IsFiniteSet({a, b, c, d}) /\ Cardinality({a, b, c, d}) <= 4
           /\ IsFiniteSet({a, b, c, d, e}) /\ Cardinality({a, b, c, d, e}) <= 5
<1>1. IsFiniteSet({a}) /\ Cardinality({a}) = 1
  BY FS_Singleton
<1>2. IsFiniteSet({a} \cup {b}) /\ Cardinality({a} \cup {b}) \in 1 .. 2
  BY <1>1, FS_AddElement
<1>3. IsFiniteSet({a, b} \cup {c}) /\ Cardinality({a, b} \cup {c}) \in 1 .. 3
  <2>1. {a} \cup {b} = {a, b}
    OBVIOUS
  <2> QED
    BY <1>2, <2>1, FS_AddElement
<1>4. IsFiniteSet({a, b, c} \cup {d}) /\ Cardinality({a, b, c} \cup {d}) \in 1 .. 4
  <2>1. {a, b} \cup {c} = {a, b, c}
    OBVIOUS
  <2> QED
    BY <1>3, <2>1, FS_AddElement
<1>5. IsFiniteSet({a, b, c, d} \cup {e}) /\ Cardinality({a, b, c, d} \cup {e}) \in 1 .. 5
  <2>1. {a, b, c} \cup {d} = {a, b, c, d}
    OBVIOUS
  <2> QED
    BY <1>4, <2>1, FS_AddElement
<1>6. /\ {a} \cup {b} = {a, b} /\ {a, b} \cup {c} = {a, b, c}
      /\ {a, b, c} \cup {d} = {a, b, c, d} /\ {a, b, c, d} \cup {e} = {a, b, c, d, e}
  OBVIOUS
<1> QED
  BY <1>2, <1>3, <1>4, <1>5, <1>6

\* What a configuration grants.
LEMMA Granted ==
    ASSUME intent \in Intent, rung \in 1 .. 5,
           config = Narrowed(RungLayers(rung), WORKFLOWS[intent])
    PROVE  /\ config.subagents <=> rung >= 5
           /\ config.human_handoff <=> rung >= 5
           /\ config.max_iterations =
                 IF rung >= 4 THEN WORKFLOWS[intent].max_iterations ELSE MaxIterations
           /\ rung >= 4 /\ ReversalStatus \in config.tools => intent = "refund_status"
           /\ rung >= 4 /\ SearchPolicy \in config.tools =>
                 intent \in {"refund_status", "refund_request", "policy_question"}
<1>1. PICK c, flow : c = RungLayers(rung) /\ flow = WORKFLOWS[intent]
  OBVIOUS
<1>2. /\ c.workflows = (rung >= 4) /\ c.subagents = (rung >= 5) /\ c.human_handoff = (rung >= 5)
  BY <1>1 DEF RungLayers
<1>3. /\ config.subagents = c.subagents /\ config.human_handoff = c.human_handoff
      /\ config.tools = IF c.workflows THEN c.tools \cap flow.tools ELSE c.tools
      /\ config.max_iterations = IF c.workflows THEN flow.max_iterations ELSE MaxIterations
  BY <1>1 DEF Narrowed
<1>4. ReversalStatus \in flow.tools => intent = "refund_status"
  <2>1. CASE intent = "refund_request"
    BY <1>1, <2>1, StepsDiffer DEF WORKFLOWS
  <2>2. CASE intent = "payment_status"
    BY <1>1, <2>2, StepsDiffer DEF WORKFLOWS
  <2>3. CASE intent = "policy_question"
    BY <1>1, <2>3, StepsDiffer DEF WORKFLOWS
  <2>4. CASE intent = "manipulation" \/ intent = "other"
    BY <1>1, <2>4, StepsDiffer DEF WORKFLOWS
  <2> QED
    BY <2>1, <2>2, <2>3, <2>4 DEF Intent
<1>5. SearchPolicy \in flow.tools =>
         intent \in {"refund_status", "refund_request", "policy_question"}
  <2>1. CASE intent = "payment_status"
    BY <1>1, <2>1, StepsDiffer DEF WORKFLOWS
  <2>2. CASE intent = "manipulation" \/ intent = "other"
    BY <1>1, <2>2, StepsDiffer DEF WORKFLOWS
  <2> QED
    BY <2>1, <2>2 DEF Intent
<1> QED
  BY <1>1, <1>2, <1>3, <1>4, <1>5

LEMMA FewSteps ==
    ASSUME Ample, intent \in Intent, rung \in 1 .. 5,
           config = Narrowed(RungLayers(rung), WORKFLOWS[intent]),
           NEW steps, steps \subseteq {step \in Step : CalledFor(step)}
    PROVE  /\ IsFiniteSet(steps) /\ Cardinality(steps) \in 0 .. 5
           /\ Cardinality(steps) < config.max_iterations
<1>1. /\ WORKFLOWS["refund_status"].max_iterations = 7
      /\ WORKFLOWS["refund_request"].max_iterations = 6
      /\ WORKFLOWS["payment_status"].max_iterations = 4
      /\ WORKFLOWS["policy_question"].max_iterations = 3
      /\ WORKFLOWS["manipulation"].max_iterations = 2
      /\ WORKFLOWS["other"].max_iterations = 2
  BY DEF WORKFLOWS
<1>2. MaxIterations \in Nat /\ MaxIterations >= 6
  BY LoopAssumption DEF Ample
<1>3. ASSUME NEW few, IsFiniteSet(few), NEW n \in 0 .. 5, Cardinality(few) <= n,
             n < config.max_iterations, \A step \in steps : step \in few
      PROVE  /\ IsFiniteSet(steps) /\ Cardinality(steps) \in 0 .. 5
             /\ Cardinality(steps) < config.max_iterations
  <2>1. steps \subseteq few
    BY <1>3
  <2>2. IsFiniteSet(steps) /\ Cardinality(steps) <= Cardinality(few)
    BY <1>3, <2>1, FS_Subset
  <2>3. Cardinality(steps) \in Nat /\ Cardinality(few) \in Nat
    BY <1>3, <2>2, FS_CardinalityType
  <2>4. config.max_iterations \in Nat
    BY <1>1, <1>2, Granted DEF Intent
  <2> QED
    BY <1>3, <2>2, <2>3, <2>4
<1>4. \A step \in steps : step \in Step /\ CalledFor(step)
  OBVIOUS
<1>5. CASE ~OfMoney /\ intent # "policy_question"
  <2>1. IsFiniteSet({}) /\ Cardinality({}) = 0
    BY FS_EmptySet
  <2>2. 0 < config.max_iterations
    BY <1>1, <1>2, Granted DEF Intent
  <2>3. \A step \in steps : step \in {}
    BY <1>4, <1>5 DEF CalledFor, WantsClause, Remembers, Repairs
  <2> QED
    BY <1>3, <2>1, <2>2, <2>3
<1>6. CASE intent = "policy_question"
  <2>1. PICK few : few = {SearchPolicy, "consult_policy"}
    OBVIOUS
  <2>2. IsFiniteSet(few) /\ Cardinality(few) <= 2
    BY <2>1, AtMost
  <2>3. 2 < config.max_iterations
    BY <1>1, <1>2, <1>6, Granted
  <2>4. \A step \in steps : step \in few
    BY <1>4, <1>6, <2>1 DEF CalledFor, WantsClause, Remembers, Repairs, OfMoney
  <2> QED
    BY <1>3, <2>2, <2>3, <2>4
<1>7. CASE OfMoney /\ ~Remembers
  <2>1. PICK few : few = IF world.kind = "none" THEN {LookupTransaction, OpenTicket}
                         ELSE {LookupTransaction, ReversalStatus, "propose_reversal"}
    OBVIOUS
  <2>2. IsFiniteSet(few) /\ Cardinality(few) <= 3
    <3>1. CASE world.kind = "none"
      <4>1. IsFiniteSet(few) /\ Cardinality(few) <= 2
        BY <2>1, <3>1, AtMost
      <4> QED
        BY <4>1, FS_CardinalityType
    <3>2. CASE world.kind # "none"
      BY <2>1, <3>2, AtMost
    <3> QED
      BY <3>1, <3>2
  <2>3. 3 < config.max_iterations
    BY <1>1, <1>2, <1>7, Granted DEF OfMoney
  <2>4. \A step \in steps : step \in few
    BY <1>4, <1>7, <2>1 DEF CalledFor, WantsClause, Repairs, OfMoney
  <2> QED
    BY <1>3, <2>2, <2>3, <2>4
<1>8. CASE Remembers /\ rung >= 4 /\ intent = "payment_status"
  <2>1. PICK few : few = {LookupTransaction, "consult_policy", "final"}
    OBVIOUS
  <2>2. IsFiniteSet(few) /\ Cardinality(few) <= 3
    BY <2>1, AtMost
  <2>3. 3 < config.max_iterations
    BY <1>1, <1>8, Granted
  <2>4. \A step \in steps : step \in few
    BY <1>4, <1>8, <2>1, Granted DEF CalledFor, Remembers, Repairs, OnItsWay
  <2> QED
    BY <1>3, <2>2, <2>3, <2>4
<1>9. CASE Remembers /\ ~(rung >= 4 /\ intent = "payment_status")
  <2>1. PICK few :
           few = {LookupTransaction, ReversalStatus, SearchPolicy, "consult_policy", "final"}
    OBVIOUS
  <2>2. IsFiniteSet(few) /\ Cardinality(few) <= 5
    BY <2>1, AtMost
  <2>3. 5 < config.max_iterations
    BY <1>1, <1>2, <1>9, Granted DEF Remembers, OfMoney
  <2>4. \A step \in steps : step \in few
    BY <1>4, <1>9, <2>1 DEF CalledFor, Remembers, Repairs, OnItsWay
  <2> QED
    BY <1>3, <2>2, <2>3, <2>4
<1> QED
  BY <1>5, <1>6, <1>7, <1>8, <1>9

-----------------------------------------------------------------------------
(* What the policy chooses while all goes well.                             *)

\* A view that gives up no summary, of a run that has gone well so far.
Reading ==
    /\ config \in Config /\ Asked /\ clauses \subseteq Clause /\ phase = "deciding"
    /\ SignsMean /\ Counts /\ ~failed /\ ~world.unsayable
    /\ Lasting(window) \subseteq view /\ view \subseteq Known(window)

\* What it shows is so.
LEMMA ViewIsTrue ==
    ASSUME Reading
    PROVE  /\ "lookup_failed" \notin view
           /\ "txn" \in view => Txn \in seen
           /\ "lookup" \in view /\ "txn" \notin view => world.kind = "none"
           /\ {"clause", "sub_clause"} \cap view # {} => TheClause \in clauses
           /\ {"other_clause", "sub_other"} \cap view # {} => ~(clauses \subseteq {TheClause})
           /\ Status \cap view \subseteq {world.reversal}
           /\ Status \cap view # {} => ReversalStatus \in config.tools
           /\ "rejected" \in view => config.verifiers
<1>1. PICK la, kn : la = Lasting(window) /\ kn = Known(window)
  OBVIOUS
<1>2. la \subseteq view /\ view \subseteq kn /\ kn \subseteq la \cup OfClauses
  BY <1>1 DEF Reading, SignsMean
<1>3. \A sign \in view : sign \notin OfClauses => sign \in la
  BY <1>2
<1>4. /\ "txn" \in view => "txn" \in la
      /\ "lookup" \in view => "lookup" \in la
      /\ "lookup_failed" \in view => "lookup_failed" \in la
      /\ "rejected" \in view => "rejected" \in la
      /\ Status \cap view \subseteq la
  BY <1>3 DEF OfClauses, Status
<1>5. /\ "lookup_failed" \notin view
      /\ "txn" \in view => Txn \in seen
      /\ "lookup" \in view /\ "txn" \notin view => world.kind = "none"
  BY <1>1, <1>2, <1>4 DEF Reading, SignsMean
<1>6. /\ {"clause", "sub_clause"} \cap view # {} => TheClause \in clauses
      /\ {"other_clause", "sub_other"} \cap view # {} => ~(clauses \subseteq {TheClause})
  BY <1>1, <1>2 DEF Reading, SignsMean
<1>7. Status \cap view \subseteq {world.reversal}
  BY <1>1, <1>4 DEF Reading, SignsMean
<1>8. Status \cap view # {} => ReversalStatus \in config.tools
  <2> SUFFICES ASSUME Status \cap view # {} PROVE ReversalStatus \in config.tools
    OBVIOUS
  <2>1. Shows(la, ReversalStatus)
    BY <1>4 DEF Shows
  <2>2. ReversalStatus \in Taken
    BY <1>1, <2>1, StepsDiffer DEF Taken
  <2>3. CalledFor(ReversalStatus)
    BY <2>2 DEF Reading, Counts
  <2> QED
    BY <2>3, StepsDiffer DEF CalledFor, KernelAction
<1>9. "rejected" \in view => config.verifiers
  <2> SUFFICES ASSUME "rejected" \in view PROVE config.verifiers
    OBVIOUS
  <2>1. Shows(la, "final")
    BY <1>4 DEF Shows
  <2>2. "final" \in Taken
    BY <1>1, <2>1, StepsDiffer DEF Taken, Step, KernelAction
  <2>3. CalledFor("final")
    BY <2>2 DEF Reading, Counts
  <2> QED
    BY <2>3, StepsDiffer DEF CalledFor, KernelAction
<1> QED
  BY <1>5, <1>6, <1>7, <1>8, <1>9

\* What it does not show was not done.
LEMMA ViewIsWhole ==
    ASSUME Reading
    PROVE  /\ "lookup" \notin view => LookupTransaction \notin Taken
           /\ Status \cap view = {} => ReversalStatus \notin Taken
           /\ "search" \notin view => SearchPolicy \notin Taken
           /\ "consulted" \notin view => "consult_policy" \notin Taken
           /\ "rejected" \notin view => "final" \notin Taken
           /\ {"refused", "no_handoff"} \cap view = {} => "propose_reversal" \notin Taken
           /\ "ticket" \notin view => OpenTicket \notin Taken
<1>1. PICK la : la = Lasting(window)
  OBVIOUS
<1>2. la \subseteq view
  BY <1>1 DEF Reading
<1>3. \A step \in Taken : step # OpenTicket => Shows(la, step)
  BY <1>1 DEF Reading, Taken, InHand
<1>4. "ticket" \notin view => OpenTicket \notin Taken
  BY <1>1, <1>2 DEF Reading, Taken, Counts, InHand
<1>5. /\ LookupTransaction \in Taken => "lookup" \in view
      /\ ReversalStatus \in Taken => Status \cap view # {}
      /\ SearchPolicy \in Taken => "search" \in view
  BY <1>2, <1>3, StepsDiffer DEF Shows, KernelAction
<1>6. /\ "consult_policy" \in Taken => "consulted" \in view
      /\ "final" \in Taken => "rejected" \in view
      /\ "propose_reversal" \in Taken => {"refused", "no_handoff"} \cap view # {}
  BY <1>2, <1>3, StepsDiffer DEF Shows, KernelAction
<1> QED
  BY <1>4, <1>5, <1>6

\* An answer that passes, a hand-over, or a step that is called for and was not
\* taken; a draft that does not pass is such a step.
Apt(c) ==
    \/ c.action = "final" /\ (config.verifiers => RunVerifiers(c.answer))
    \/ c.action = "handoff"
    \/ /\ c.action \in Step /\ CalledFor(c.action) /\ c.action \notin Taken
       /\ c.action = "final" => ~CheckTimelinesCited(c.answer)

LEMMA FinalIsApt ==
    ASSUME NEW what, NEW facts \in SUBSET seen, NEW cites \in SUBSET clauses,
           NEW timeline \in BOOLEAN, timeline => cites # {}
    PROVE  Apt(Says(what, Claims(facts, cites, timeline, FALSE)))
<1>1. PICK a : a = Claims(facts, cites, timeline, FALSE)
  OBVIOUS
<1>2. a.facts = facts /\ a.cites = cites /\ a.timeline = timeline /\ a.blocked = FALSE
  BY <1>1 DEF Claims
<1>3. RunVerifiers(a)
  BY <1>2 DEF RunVerifiers, CheckGuardrails, CheckFactsTraced, CheckTimelinesCited,
     CheckCitationsRetrieved
<1>4. Apt(Says(what, a))
  BY <1>3, SaysIs DEF Apt
<1> QED
  BY <1>1, <1>4

LEMMA PlainlyIsApt == ASSUME NEW what PROVE Apt(Plainly(what))
BY FinalIsApt DEF Plainly

LEMMA OfTxnIsApt == ASSUME NEW what, Txn \in seen PROVE Apt(OfTxn(what))
BY FinalIsApt DEF OfTxn

LEMMA DoesIsApt ==
    ASSUME NEW step \in Step, NEW args, step # "final", CalledFor(step), step \notin Taken
    PROVE  Apt(Does(step, args))
BY DoesIs DEF Apt

LEMMA AsksPolicyIsApt ==
    ASSUME Reading, WantsClause, NEW otherwise, Apt(otherwise)
    PROVE  Apt(AsksPolicy(otherwise))
<1>1. CASE config.subagents /\ "consulted" \notin view
  <2>1. CalledFor("consult_policy") /\ "consult_policy" \in Step
    BY <1>1 DEF CalledFor, Step
  <2> QED
    BY <1>1, <2>1, ViewIsWhole, DoesIsApt DEF AsksPolicy
<1>2. CASE SearchPolicy \in config.tools /\ "search" \notin view
  <2>1. CalledFor(SearchPolicy) /\ SearchPolicy \in Step /\ SearchPolicy # "final"
    BY <1>2, StepsDiffer DEF CalledFor, KernelAction
  <2> QED
    BY <1>1, <1>2, <2>1, ViewIsWhole, DoesIsApt DEF AsksPolicy
<1> QED
  BY <1>1, <1>2 DEF AsksPolicy

LEMMA PolicyAnswerIsApt ==
    ASSUME Reading, intent = "policy_question", \A c, d \in Clause \ {TheClause} : c = d
    PROVE  Apt(PolicyAnswer)
<1>1. world.stated \in BOOLEAN /\ world.unsayable = FALSE
  BY DEF Reading, Asked, World
<1>2. CASE {"clause", "sub_clause"} \cap view # {}
  <2>1. {TheClause} \in SUBSET clauses /\ {} \in SUBSET seen
    BY <1>2, ViewIsTrue
  <2>2. Apt(Says("clause", Claims({}, {TheClause}, world.stated, FALSE)))
    BY <1>1, <2>1, FinalIsApt
  <2> QED
    BY <1>1, <1>2, <2>2 DEF PolicyAnswer
<1>3. CASE /\ {"clause", "sub_clause"} \cap view = {}
           /\ {"other_clause", "sub_other"} \cap view # {}
  <2>1. Clause \ {TheClause} \in SUBSET clauses /\ {} \in SUBSET seen
    BY <1>3, ViewIsTrue DEF Reading
  <2>2. Apt(Says("clause", Claims({}, Clause \ {TheClause}, FALSE, FALSE)))
    BY <2>1, FinalIsApt
  <2> QED
    BY <1>1, <1>3, <2>2 DEF PolicyAnswer
<1>4. Apt(AsksPolicy(Plainly("will_check")))
  BY PlainlyIsApt, AsksPolicyIsApt DEF WantsClause
<1> QED
  BY <1>2, <1>3, <1>4 DEF PolicyAnswer

LEMMA WithTimelineIsApt ==
    ASSUME Reading, Remembers, Txn \in seen
    PROVE  Apt(WithTimeline)
<1>1. CASE ClauseSeen
  <2>1. {TheClause} \in SUBSET clauses /\ {Txn} \in SUBSET seen
    BY <1>1, ViewIsTrue DEF ClauseSeen
  <2>2. Apt(Says("timeline", Claims({Txn}, {TheClause}, TRUE, FALSE)))
    BY <2>1, FinalIsApt
  <2> QED
    BY <1>1, <2>2, OfTxnIsApt DEF WithTimeline
<1>2. CASE ~ClauseSeen /\ "rejected" \in view
  <2>1. WantsClause
    BY <1>2, ViewIsTrue DEF WantsClause
  <2> QED
    BY <1>2, <2>1, OfTxnIsApt, AsksPolicyIsApt DEF WithTimeline
<1>3. CASE ~ClauseSeen /\ "rejected" \notin view
  <2>1. PICK a : a = Claims({Txn}, {}, TRUE, FALSE)
    OBVIOUS
  <2>2. ~CheckTimelinesCited(a)
    BY <2>1 DEF CheckTimelinesCited, Claims
  <2>3. "final" \in Step /\ "final" \notin Taken
    BY <1>3, ViewIsWhole DEF Step
  <2>4. config.verifiers => CalledFor("final")
    BY DEF CalledFor
  <2>5. Apt(Says("remembered", a))
    BY <2>2, <2>3, <2>4, SaysIs DEF Apt
  <2> QED
    BY <1>3, <2>1, <2>5 DEF WithTimeline
<1> QED
  BY <1>1, <1>2, <1>3

LEMMA ProposeFixIsApt ==
    ASSUME Reading, Repairs, Txn \in seen
    PROVE  Apt(ProposeFix)
<1>1. Apt(Does("handoff", {}))
  BY DoesIs DEF Apt
<1>2. Apt(OfTxn("cannot_start")) /\ Apt(OfTxn("qualifies"))
  BY OfTxnIsApt
<1>3. CASE "refused" \notin view /\ "no_handoff" \notin view
  <2>1. {"refused", "no_handoff"} \cap view = {}
    BY <1>3
  <2>2. /\ "propose_reversal" \notin Taken /\ "propose_reversal" \in Step
        /\ CalledFor("propose_reversal")
    BY <2>1, ViewIsWhole DEF CalledFor, Step
  <2> QED
    BY <1>3, <2>2, DoesIsApt DEF ProposeFix
<1> QED
  BY <1>1, <1>2, <1>3 DEF ProposeFix

LEMMA AboutTxnIsApt ==
    ASSUME Reading, OfMoney, "txn" \in view
    PROVE  Apt(AboutTxn)
<1>1. Txn \in seen
  BY ViewIsTrue
<1>2. \A what : Apt(OfTxn(what))
  BY <1>1, OfTxnIsApt
<1>3. CASE world.kind = "duplicate"
  <2>1. CASE Status \cap view = {} /\ ReversalStatus \in config.tools
    <3>1. /\ ReversalStatus \notin Taken /\ ReversalStatus \in Step /\ ReversalStatus # "final"
          /\ CalledFor(ReversalStatus)
      BY <1>3, <2>1, ViewIsWhole, StepsDiffer DEF CalledFor, KernelAction
    <3>2. Apt(Does(ReversalStatus, {Txn}))
      BY <3>1, DoesIsApt
    <3>3. DuplicateDebit = Does(ReversalStatus, {Txn})
      BY <2>1 DEF DuplicateDebit, Status
    <3> QED
      BY <1>3, <3>2, <3>3 DEF AboutTxn
  <2>2. CASE ~(Status \cap view = {} /\ ReversalStatus \in config.tools)
    <3>1. DuplicateDebit = IF "credited" \in view THEN OfTxn("completed")
                           ELSE IF "initiated" \in view THEN WithTimeline ELSE ProposeFix
      <4>1. CASE "credited" \in view
        <5>1. "initiated" \notin view
          BY <4>1, ViewIsTrue DEF Status
        <5> QED
          BY <2>2, <4>1, <5>1 DEF DuplicateDebit, Status
      <4>2. CASE "credited" \notin view
        BY <2>2, <4>2 DEF DuplicateDebit, Status
      <4> QED
        BY <4>1, <4>2
    <3>2. "initiated" \in view => Remembers
      BY <1>3, ViewIsTrue DEF Status, Remembers, OnItsWay
    <3>3. "credited" \notin view /\ "initiated" \notin view => Repairs
      BY <1>3, <2>2, ViewIsTrue DEF Status, Repairs, OnItsWay
    <3> QED
      BY <1>1, <1>2, <1>3, <3>1, <3>2, <3>3, WithTimelineIsApt, ProposeFixIsApt DEF AboutTxn
  <2> QED
    BY <2>1, <2>2
<1>4. CASE world.kind = "returning"
  BY <1>1, <1>4, WithTimelineIsApt DEF AboutTxn, Remembers
<1>5. CASE world.kind = "overdue"
  BY <1>1, <1>5, ProposeFixIsApt DEF AboutTxn, Repairs
<1> QED
  BY <1>2, <1>3, <1>4, <1>5 DEF AboutTxn

\* The policy does what is called for, once, and sends nothing that does not pass
\* but the draft it remembers.
LEMMA ChoiceIsApt ==
    ASSUME Reading, \A c, d \in Clause \ {TheClause} : c = d
    PROVE  Apt(ScriptedChoice)
<1>1. CASE intent \in {"manipulation", "other"}
  BY <1>1, PlainlyIsApt DEF ScriptedChoice
<1>2. CASE intent = "policy_question"
  BY <1>2, PolicyAnswerIsApt DEF ScriptedChoice
<1>3. CASE OfMoney
  <2>1. "lookup_failed" \notin view
    BY ViewIsTrue
  <2>2. CASE ~LookedUp /\ LookupTransaction \in config.tools
    <3>1. /\ LookupTransaction \notin Taken /\ LookupTransaction \in Step
          /\ LookupTransaction # "final" /\ CalledFor(LookupTransaction)
      BY <1>3, <2>2, ViewIsWhole, StepsDiffer DEF CalledFor, KernelAction, LookedUp
    <3>2. Apt(Does(LookupTransaction, {}))
      BY <3>1, DoesIsApt
    <3> QED
      BY <1>3, <2>1, <2>2, <3>2 DEF ScriptedChoice, AboutMoney, OfMoney, LookedUp
  <2>3. CASE ~LookedUp /\ LookupTransaction \notin config.tools
    BY <1>3, <2>1, <2>3, PlainlyIsApt DEF ScriptedChoice, AboutMoney, OfMoney, LookedUp
  <2>4. CASE "txn" \in view
    BY <1>3, <2>1, <2>4, AboutTxnIsApt DEF ScriptedChoice, AboutMoney, OfMoney, LookedUp
  <2>5. CASE LookedUp /\ "txn" \notin view
    <3>1. world.kind = "none"
      BY <2>5, ViewIsTrue DEF LookedUp
    <3>2. Apt(TicketFirst("not_found"))
      <4>1. "ticket" \notin view => OpenTicket \notin Taken
        BY ViewIsWhole
      <4>2. OpenTicket \in Step /\ OpenTicket # "final" /\ CalledFor(OpenTicket)
        BY <1>3, <3>1, StepsDiffer DEF CalledFor, KernelAction
      <4> QED
        BY <4>1, <4>2, DoesIsApt, PlainlyIsApt DEF TicketFirst
    <3> QED
      BY <1>3, <2>1, <2>5, <3>2 DEF ScriptedChoice, AboutMoney, OfMoney
  <2> QED
    BY <2>2, <2>3, <2>4, <2>5
<1> QED
  BY <1>1, <1>2, <1>3 DEF Reading, Asked, Intent, OfMoney

-----------------------------------------------------------------------------
(* What a step does to the counts.                                          *)

\* Of signs that come together, each shows what it shows alone.
LEMMA ShowsEach ==
    ASSUME NEW la, NEW line, NEW step
    PROVE  Shows(la \cup line, step) <=> Shows(la, step) \/ Shows(line, step)
BY DEF Shows

\* What answers a step shows that one, and no other.
LEMMA AnswerShows ==
    ASSUME Asked, NEW action, NEW line, Answers(action, line), NEW step, step # OpenTicket
    PROVE  Shows(line, step) <=> step = action
<1>1. world.reversal \in Status
  BY DEF Asked, World, Status
<1>2. CASE action = LookupTransaction
  <2>1. "lookup" \in line /\ line \subseteq {"lookup", "txn"}
    BY <1>2, StepsDiffer DEF Answers, KernelAction
  <2> QED
    BY <1>2, <2>1 DEF Shows, Status
<1>3. CASE action = ReversalStatus
  <2>1. line = {world.reversal}
    BY <1>3, StepsDiffer DEF Answers, KernelAction
  <2> QED
    BY <1>1, <1>3, <2>1 DEF Shows, Status
<1>4. CASE action = SearchPolicy
  <2>1. "search" \in line /\ line \subseteq {"search", "clause", "other_clause"}
    BY <1>4, StepsDiffer DEF Answers, KernelAction
  <2> QED
    BY <1>4, <2>1 DEF Shows, Status
<1>5. CASE action = OpenTicket
  <2>1. line = {"ticket"}
    BY <1>5, StepsDiffer DEF Answers, KernelAction
  <2> QED
    BY <1>5, <2>1 DEF Shows, Status
<1>6. CASE action = "consult_policy"
  <2>1. "consulted" \in line /\ line \subseteq {"consulted", "sub_clause", "sub_other"}
    BY <1>6, StepsDiffer DEF Answers, KernelAction
  <2> QED
    BY <1>6, <2>1 DEF Shows, Status
<1> QED
  BY <1>2, <1>3, <1>4, <1>5, <1>6 DEF Answers

LEMMA TakenIsFinite ==
    /\ IsFiniteSet(Taken) /\ Cardinality(Taken) \in Nat
    /\ \A step \in Step \ Taken : Cardinality(Taken \cup {step}) = Cardinality(Taken) + 1
<1>1. Taken \subseteq Step
  BY DEF Taken
<1>2. IsFiniteSet(Taken)
  BY <1>1, StepsDiffer, FS_Subset
<1> QED
  BY <1>2, FS_CardinalityType, FS_AddElement

LEMMA WaitsAdd ==
    ASSUME NEW n \in Nat
    PROVE  /\ (n + 1) - 1 = n /\ MaxWait * n \in Nat
           /\ MaxWait * (n + 1) = MaxWait * n + MaxWait
BY LoopAssumption

\* As long as nothing is done, the counts stand.
LEMMA CountsStand ==
    ASSUME Counts, meter \in Meter, UNCHANGED <<meter, calls, config, intent, world>>,
           Lasting(window') = Lasting(window),
           \/ phase' = phase
           \/ {phase, phase'} \cap {"calling", "consulting"} = {}
    PROVE  Counts'
<1>1. \A step : InHand(step)' <=> InHand(step)
  BY DEF InHand
<1>2. Taken' = Taken
  BY <1>1 DEF Taken
<1>3. \A step : CalledFor(step)' <=> CalledFor(step)
  BY DEF CalledFor, OfMoney, WantsClause, Remembers, Repairs, OnItsWay
<1>4. Taken' \subseteq {step \in Step : CalledFor(step)'}
  BY <1>2, <1>3 DEF Counts
<1> QED
  BY <1>1, <1>2, <1>4 DEF Counts

\* A step that is called for and was not taken is counted.
LEMMA StepCounts ==
    ASSUME Counts, phase = "deciding", meter \in Meter, meter' \in Meter,
           NEW step \in Step, CalledFor(step), step \notin Taken,
           Taken' = Taken \cup {step},
           UNCHANGED <<config, intent, world>>,
           meter'.iterations = meter.iterations + 1, meter'.spent = meter.spent + 1,
           meter'.seconds = meter.seconds, meter'.streak = 1,
           NEW args, meter'.last = <<step, args>>, meter'.last # None,
           meter'.verifier_retries <= IF Shows(Lasting(window'), "final") THEN 1 ELSE 0,
           Lasting(window) \subseteq Lasting(window'),
           calls'[OpenTicket] > 0 => "ticket" \in Lasting(window') \/ InHand(OpenTicket)',
           phase' = "consulting" => step = "consult_policy" /\ Lasting(window') = Lasting(window)
    PROVE  Counts'
<1>1. \A s : CalledFor(s)' <=> CalledFor(s)
  BY DEF CalledFor, OfMoney, WantsClause, Remembers, Repairs, OnItsWay
<1>2. Taken' \subseteq {s \in Step : CalledFor(s)'}
  BY <1>1 DEF Counts
<1>3. meter'.iterations <= Cardinality(Taken')
  BY TakenIsFinite DEF Counts, Meter
<1>4. PICK la, la2 : la = Lasting(window) /\ la2 = Lasting(window')
  OBVIOUS
<1>5. meter'.spent <= meter'.iterations
         + (IF Shows(la2, "consult_policy") THEN MaxCharge ELSE 0)
  <2>1. Shows(la, "consult_policy") => Shows(la2, "consult_policy")
    BY <1>4 DEF Shows
  <2>2. /\ meter.spent <= meter.iterations + (IF Shows(la, "consult_policy") THEN MaxCharge ELSE 0)
        /\ meter.spent \in Nat /\ meter.iterations \in Nat
    BY <1>4 DEF Counts, Meter
  <2> QED
    BY <2>1, <2>2, LoopAssumption
<1>6. meter'.seconds <= MaxWait * (IF phase' \in {"calling", "consulting"}
                                   THEN meter'.iterations - 1 ELSE meter'.iterations)
  <2>1. PICK n \in Nat : n = meter.iterations
    BY DEF Meter
  <2>2. meter.seconds <= MaxWait * n /\ meter.seconds \in Nat
    BY <2>1 DEF Counts, Meter
  <2>3. meter'.iterations = n + 1
    BY <2>1
  <2>4. PICK worth \in Nat : worth = MaxWait * n /\ MaxWait * (n + 1) = worth + MaxWait
    BY WaitsAdd
  <2>5. meter'.seconds <= worth /\ meter'.seconds <= worth + MaxWait
    BY <2>2, <2>4, LoopAssumption
  <2> QED
    BY <2>3, <2>4, <2>5, WaitsAdd
<1>7. meter'.last[1] \in Taken'
  OBVIOUS
<1>8. phase' \in {"calling", "consulting"} => meter'.last # None /\ meter'.iterations > 0
  BY DEF Meter
<1>9. phase' = "consulting" => meter'.last[1] = "consult_policy" /\ ~Shows(la2, "consult_policy")
  <2> SUFFICES ASSUME phase' = "consulting"
               PROVE  meter'.last[1] = "consult_policy" /\ ~Shows(la2, "consult_policy")
    OBVIOUS
  <2>1. ~Shows(la, "consult_policy")
    BY <1>4, StepsDiffer DEF Taken, KernelAction
  <2> QED
    BY <1>4, <2>1
<1> QED
  BY <1>2, <1>3, <1>4, <1>5, <1>6, <1>7, <1>8, <1>9 DEF Counts

\* An answer leaves the sign of the step, and is paid for.
LEMMA AnswerCounts ==
    ASSUME Counts, Asked, phase \in {"calling", "consulting"}, phase' = "ready",
           meter \in Meter, NEW cost \in Nat, NEW wait \in 0 .. MaxWait,
           meter' = Charged(meter, cost, wait),
           cost = 0 \/ (phase = "consulting" /\ cost <= MaxCharge),
           NEW line, Answers(meter.last[1], line),
           Lasting(window') = Lasting(window) \cup line,
           UNCHANGED <<calls, config, intent, world>>
    PROVE  Counts'
<1>1. PICK la, la2, action :
         la = Lasting(window) /\ la2 = Lasting(window') /\ action = meter.last[1]
  OBVIOUS
<1>2. \A s : s # OpenTicket => (Shows(la2, s) <=> Shows(la, s) \/ s = action)
  BY <1>1, ShowsEach, AnswerShows
<1>3. /\ meter' \in Meter /\ meter'.iterations = meter.iterations
      /\ meter'.spent = meter.spent + cost /\ meter'.seconds = meter.seconds + wait
      /\ meter'.verifier_retries = meter.verifier_retries
      /\ meter'.last = meter.last /\ meter'.streak = meter.streak
  <2>1. wait \in Nat
    BY LoopAssumption
  <2> QED
    BY <2>1, ChargeIsMetered
<1>4. Taken' = Taken
  <2>1. \A s : ~InHand(s)' /\ (InHand(s) <=> s = action)
    BY <1>1 DEF InHand
  <2> QED
    BY <1>1, <1>2, <2>1 DEF Taken
<1>5. \A s : CalledFor(s)' <=> CalledFor(s)
  BY DEF CalledFor, OfMoney, WantsClause, Remembers, Repairs, OnItsWay
<1>6. Taken' \subseteq {s \in Step : CalledFor(s)'}
  BY <1>4, <1>5 DEF Counts
<1>7. meter'.iterations <= Cardinality(Taken')
  BY <1>3, <1>4 DEF Counts
<1>8. meter'.verifier_retries <= IF Shows(la2, "final") THEN 1 ELSE 0
  <2>1. Shows(la, "final") => Shows(la2, "final")
    BY <1>1 DEF Shows
  <2>2. meter.verifier_retries <= IF Shows(la, "final") THEN 1 ELSE 0
    BY <1>1 DEF Counts
  <2> QED
    BY <1>3, <2>1, <2>2 DEF Meter
<1>9. meter'.spent <= meter'.iterations
         + (IF Shows(la2, "consult_policy") THEN MaxCharge ELSE 0)
  <2>1. /\ Shows(la, "consult_policy") => Shows(la2, "consult_policy")
        /\ phase = "consulting" => Shows(la2, "consult_policy") /\ ~Shows(la, "consult_policy")
    BY <1>1, <1>2, StepsDiffer DEF Counts, KernelAction
  <2>2. /\ meter.spent <= meter.iterations + (IF Shows(la, "consult_policy") THEN MaxCharge ELSE 0)
        /\ meter.spent \in Nat /\ meter.iterations \in Nat
    BY <1>1 DEF Counts, Meter
  <2> QED
    BY <1>3, <2>1, <2>2, LoopAssumption
<1>10. meter'.seconds <= MaxWait * meter'.iterations
  <2>1. PICK n \in Nat : meter.iterations = n + 1
    <3>1. meter.iterations - 1 \in Nat /\ meter.iterations = (meter.iterations - 1) + 1
      BY DEF Counts, Meter
    <3> QED
      BY <3>1
  <2>2. (n + 1) - 1 = n
    OBVIOUS
  <2>3. meter.seconds <= MaxWait * n /\ meter.seconds \in Nat
    BY <2>1, <2>2 DEF Counts, Meter
  <2>4. PICK worth \in Nat : worth = MaxWait * n /\ MaxWait * (n + 1) = worth + MaxWait
    BY WaitsAdd
  <2>5. meter'.seconds <= worth + MaxWait
    BY <1>3, <2>3, <2>4, LoopAssumption
  <2> QED
    BY <1>3, <2>1, <2>4, <2>5
<1>11. meter'.last # None /\ meter'.last[1] \in Taken'
  BY <1>3, <1>4 DEF Counts
<1>12. calls'[OpenTicket] > 0 => "ticket" \in la2
  <2>1. action = OpenTicket => line = {"ticket"}
    BY <1>1, StepsDiffer DEF Answers, KernelAction
  <2> QED
    BY <1>1, <2>1 DEF Counts, InHand
<1>13. meter'.streak <= 1
  BY <1>3 DEF Counts
<1> QED
  BY <1>1, <1>6, <1>7, <1>8, <1>9, <1>10, <1>11, <1>12, <1>13 DEF Counts

LEMMA ScriptedPass ==
    ASSUME meter \in Meter, NEW d \in Decision, NEW m, m = AfterPass(meter, d, 1, 0)
    PROVE  /\ m \in Meter /\ m.iterations = meter.iterations + 1 /\ m.spent = meter.spent + 1
           /\ m.seconds = meter.seconds /\ m.verifier_retries = meter.verifier_retries
           /\ m.last = <<d.action, d.args>>
           /\ m.streak = IF meter.last = <<d.action, d.args>> THEN meter.streak + 1 ELSE 1
<1>1. PICK cost \in Nat, wait \in Nat : cost = 1 /\ wait = 0
  OBVIOUS
<1> DEFINE pass == AfterPass(meter, d, cost, wait)
<1>2. /\ pass \in Meter /\ pass.iterations = meter.iterations + 1
      /\ pass.spent = meter.spent + cost /\ pass.seconds = meter.seconds + wait
      /\ pass.verifier_retries = meter.verifier_retries
  BY PassIsMetered
<1>3. pass.last = <<d.action, d.args>>
  BY PassIsMetered
<1>4. pass.streak = IF meter.last = <<d.action, d.args>> THEN meter.streak + 1 ELSE 1
  BY PassIsMetered
<1>5. m = pass
  BY <1>1
<1> HIDE DEF pass
<1>6. meter.seconds + 0 = meter.seconds
  BY DEF Meter
<1> QED
  BY <1>1, <1>2, <1>3, <1>4, <1>5, <1>6

\* A decision ends the run as it should, or takes a step that is called for.
LEMMA AptDecision ==
    ASSUME ScriptInv, Ample, Counts, phase = "deciding",
           NEW c, Tame(c), Apt(c), NEW d \in Decision, Chosen(c, d),
           NEW m, m = AfterPass(meter, d, 1, 0)
    PROVE  \/ phase' = "ended" /\ stop' \in {"done", "needs_human"}
           \/ /\ c.action \in Step /\ CalledFor(c.action) /\ c.action \notin Taken
              /\ \/ phase' = "calling" /\ meter' = m
                 \/ phase' = "consulting" /\ meter' = m /\ c.action = "consult_policy"
                 \/ phase' = "ready" /\ meter' = m /\ c.action = "propose_reversal"
                 \/ /\ phase' = "ready" /\ meter' = Rejected(m) /\ c.action = "final"
                    /\ ~CheckTimelinesCited(d.answer)
<1>1. d.action = c.action /\ d.answer = c.answer /\ Decides(d, m) /\ config \in Config
  BY DEF Chosen, ScriptInv, LoopInv, TypeOK
<1>2. ~Refuse(d, m)
  <2>1. config.tools \cap KernelAction = {}
    BY <1>1, LoopAssumption DEF Config
  <2> QED
    BY <1>1, <2>1 DEF Tame, Refuse, Refused, KernelAction
<1>3. CASE Finish(d, m)
  <2>1. c.action = "final" /\ d.answer # None
    BY <1>1, <1>3, NoneAssumption DEF Finish, Tame
  <2>2. Draft(d.answer, m)
    BY <1>3, <2>1 DEF Finish
  <2>3. CASE ~config.verifiers \/ RunVerifiers(d.answer)
    BY <2>2, <2>3 DEF Draft, Accepted, Ends
  <2>4. CASE config.verifiers /\ ~RunVerifiers(d.answer)
    <3>1. /\ c.action \in Step /\ CalledFor(c.action) /\ c.action \notin Taken
          /\ ~CheckTimelinesCited(d.answer)
      BY <1>1, <2>1, <2>4 DEF Apt
    <3>2. ~Shows(Lasting(window), "final")
      BY <2>1, <3>1, StepsDiffer DEF Taken, KernelAction
    <3>3. meter \in Meter /\ meter.verifier_retries = 0
      BY <3>2 DEF Counts, ScriptInv, LoopInv, TypeOK, Meter
    <3>4. m \in Meter /\ m.verifier_retries = 0
      BY <3>3, ScriptedPass
    <3>5. ~(Rejected(m).verifier_retries > MaxVerifierRetries)
      <4>1. Rejected(m).verifier_retries = 1
        BY <3>4, RetryIsMetered
      <4> QED
        BY <4>1, LoopAssumption DEF Ample
    <3>6. phase' = "ready" /\ meter' = Rejected(m)
      <4>1. meter' = Rejected(m)
        BY <2>2, <2>4 DEF Draft
      <4>2. ~(meter'.verifier_retries > MaxVerifierRetries)
        BY <3>5, <4>1
      <4> QED
        BY <2>2, <2>4, <4>1, <4>2 DEF Draft, GoesOn
    <3> QED
      BY <2>1, <3>1, <3>6
  <2> QED
    BY <2>3, <2>4
<1>4. CASE Handoff(d, m)
  <2>1. c.action = "handoff"
    BY <1>1, <1>4 DEF Handoff
  <2>2. config.human_handoff
    BY <2>1, LoopAssumption, ScriptedAssumption DEF Tame, KernelAction
  <2> QED
    BY <1>4, <2>2 DEF Handoff, Ends
<1>5. CASE Propose(d, m)
  <2>1. c.action = "propose_reversal"
    BY <1>1, <1>5 DEF Propose
  <2>2. c.action \in Step /\ CalledFor(c.action) /\ c.action \notin Taken
    BY <2>1 DEF Apt
  <2>3. stop' # "error"
    BY <1>1, <2>1 DEF Chosen
  <2>4. \/ phase' = "ended" /\ stop' = "needs_human"
        \/ phase' = "ready" /\ meter' = m
    BY <1>5, <2>3 DEF Propose, ProposalValid, ProposalRefused, ProposalFails, Ends, GoesOn
  <2> QED
    BY <2>1, <2>2, <2>4
<1>6. CASE Call(d, m)
  <2>1. /\ c.action \in config.tools \cup {"consult_policy"} /\ meter' = m
        /\ phase' = IF c.action = "consult_policy" THEN "consulting" ELSE "calling"
    BY <1>1, <1>6 DEF Call
  <2>2. c.action \notin {"final", "handoff"}
    BY <1>1, <2>1, LoopAssumption DEF Config, KernelAction
  <2>3. c.action \in Step /\ CalledFor(c.action) /\ c.action \notin Taken
    BY <2>2 DEF Apt
  <2> QED
    BY <2>1, <2>3
<1> QED
  BY <1>1, <1>2, <1>3, <1>4, <1>5, <1>6 DEF Decides

\* A call is in hand, and has left no sign yet.
LEMMA CallTakes ==
    ASSUME phase = "deciding", phase' \in {"calling", "consulting"}, window' = window,
           calls \in [{LookupTransaction, OpenTicket} -> Nat],
           NEW step \in Step, meter'.last[1] = step,
           step = OpenTicket => calls'[OpenTicket] = calls[OpenTicket] + 1,
           step # OpenTicket => calls'[OpenTicket] = calls[OpenTicket]
    PROVE  Taken' = Taken \cup {step}
<1>1. PICK la, n : la = Lasting(window) /\ n = calls[OpenTicket]
  OBVIOUS
<1>2. n \in Nat
  BY <1>1
<1>3. \A s : ~InHand(s) /\ (InHand(s)' <=> s = step)
  BY DEF InHand
<1>4. Taken = {s \in Step : IF s = OpenTicket THEN n > 0 ELSE Shows(la, s)}
  BY <1>1, <1>3 DEF Taken
<1>5. PICK n2 : n2 = calls'[OpenTicket]
  OBVIOUS
<1>6. Taken' = {s \in Step : IF s = OpenTicket THEN n2 > 0 ELSE Shows(la, s) \/ s = step}
  BY <1>1, <1>3, <1>5 DEF Taken
<1>7. (step = OpenTicket => n2 = n + 1) /\ (step # OpenTicket => n2 = n)
  BY <1>1, <1>5
<1>8. n2 > 0 <=> n > 0 \/ step = OpenTicket
  BY <1>2, <1>7
<1> QED
  BY <1>4, <1>6, <1>8

\* What the kernel did itself has left its sign at once.
LEMMA NoticeTakes ==
    ASSUME phase = "deciding", phase' = "ready", calls'[OpenTicket] = calls[OpenTicket],
           NEW line, Lasting(window') = Lasting(window) \cup line,
           NEW step \in Step, step # OpenTicket,
           \A s : Shows(line, s) <=> s = step
    PROVE  Taken' = Taken \cup {step}
<1>1. PICK la, la2, n : la = Lasting(window) /\ la2 = Lasting(window') /\ n = calls[OpenTicket]
  OBVIOUS
<1>2. \A s : Shows(la2, s) <=> Shows(la, s) \/ s = step
  BY <1>1, ShowsEach
<1>3. \A s : ~InHand(s) /\ ~InHand(s)'
  BY DEF InHand
<1>4. Taken = {s \in Step : IF s = OpenTicket THEN n > 0 ELSE Shows(la, s)}
  BY <1>1, <1>3 DEF Taken
<1>5. Taken' = {s \in Step : IF s = OpenTicket THEN n > 0 ELSE Shows(la2, s)}
  BY <1>1, <1>3 DEF Taken
<1> QED
  BY <1>2, <1>4, <1>5

\* All that is known of a run.
AllIsWell ==
    /\ ScriptInv /\ WindowInv /\ SignsMean /\ CleanInv
    /\ calls \in [{LookupTransaction, OpenTicket} -> Nat]

LEMMA DecideIsClean ==
    ASSUME Ample, \A x, y \in Clause \ {TheClause} : x = y,
           AllIsWell, Untroubled, ScriptedDecide
    PROVE  IF phase' = "ended" THEN stop' \in {"done", "needs_human"} ELSE Counts'
<1>1. /\ phase = "deciding" /\ Counts /\ ScriptInv /\ LoopInv /\ meter \in Meter
      /\ calls \in [{LookupTransaction, OpenTicket} -> Nat]
  BY DEF AllIsWell, CleanInv, ScriptedDecide, ScriptInv, LoopInv, TypeOK
<1>2. Reading
  BY <1>1 DEF AllIsWell, Reading, WindowInv, Untroubled, ScriptInv, LoopInv, TypeOK
<1>3. PICK c : c = ScriptedChoice /\ Tame(c) /\ \E d \in Decision : Chosen(c, d)
  BY <1>1, ScriptedDecision DEF ScriptInv
<1>4. PICK d \in Decision : Chosen(c, d)
  BY <1>3
<1>5. Apt(c)
  BY <1>2, <1>3, ChoiceIsApt
<1>6. PICK m, step : m = AfterPass(meter, d, 1, 0) /\ step = c.action
  OBVIOUS
<1>7. CASE phase' = "ended" /\ stop' \in {"done", "needs_human"}
  BY <1>7
<1>8. CASE /\ step \in Step /\ CalledFor(step) /\ step \notin Taken
           /\ \/ phase' = "calling" /\ meter' = m
              \/ phase' = "consulting" /\ meter' = m /\ step = "consult_policy"
              \/ phase' = "ready" /\ meter' = m /\ step = "propose_reversal"
              \/ /\ phase' = "ready" /\ meter' = Rejected(m) /\ step = "final"
                 /\ ~CheckTimelinesCited(d.answer)
  <2>1. d.action = step /\ d.action \in Action /\ d.args \in SUBSET Fact
    BY <1>4, <1>6 DEF Chosen, Decision
  <2>2. <<step, d.args>> # None /\ <<step, d.args>> \in Action \X SUBSET Fact
    BY <2>1, NoneAssumption
  <2>3. meter.last # <<step, d.args>>
    <3> SUFFICES ASSUME meter.last = <<step, d.args>> PROVE FALSE
      OBVIOUS
    <3>1. meter.last[1] \in Taken
      BY <1>1, <2>2 DEF Counts
    <3>2. meter.last[1] = step
      OBVIOUS
    <3> QED
      BY <1>8, <3>1, <3>2
  <2>4. /\ m \in Meter /\ m.iterations = meter.iterations + 1 /\ m.spent = meter.spent + 1
        /\ m.seconds = meter.seconds /\ m.verifier_retries = meter.verifier_retries
        /\ m.last = <<step, d.args>> /\ m.streak = 1
    <3>1. meter \in Meter /\ m = AfterPass(meter, d, 1, 0)
      BY <1>1, <1>6
    <3> QED
      BY <2>1, <2>3, <3>1, ScriptedPass
  <2>5. /\ meter' \in Meter /\ meter'.iterations = meter.iterations + 1
        /\ meter'.spent = meter.spent + 1 /\ meter'.seconds = meter.seconds
        /\ meter'.last = <<step, d.args>> /\ meter'.streak = 1
        /\ meter'.last # None /\ meter'.last[1] = step
    BY <1>8, <2>2, <2>4, RetryIsMetered
  <2>6. UNCHANGED <<config, intent, world>>
    BY <1>1, NothingIsForgotten DEF ScriptedNext
  <2>7. /\ step = OpenTicket /\ phase' = "calling" => calls'[OpenTicket] = calls[OpenTicket] + 1
        /\ ~(step = OpenTicket /\ phase' = "calling") => calls'[OpenTicket] = calls[OpenTicket]
    BY <1>1, <1>3, <1>4, <1>6, CallsChange
  <2>8. calls[OpenTicket] > 0 => "ticket" \in Lasting(window)
    BY <1>1 DEF Counts, InHand
  <2>9. CASE phase' \in {"calling", "consulting"}
    <3>1. window' = window /\ meter' = m
      BY <1>4, <1>8, <2>9 DEF Chosen
    <3>2. step = OpenTicket => phase' = "calling"
      BY <1>8, <2>9, StepsDiffer DEF KernelAction
    <3>3. Taken' = Taken \cup {step}
      BY <1>1, <1>8, <2>5, <2>7, <2>9, <3>1, <3>2, CallTakes
    <3>4. meter'.verifier_retries <= IF Shows(Lasting(window'), "final") THEN 1 ELSE 0
      BY <1>1, <2>4, <3>1 DEF Counts
    <3>5. calls'[OpenTicket] > 0 => "ticket" \in Lasting(window') \/ InHand(OpenTicket)'
      BY <2>5, <2>7, <2>8, <2>9, <3>1 DEF InHand
    <3>6. phase' = "consulting" => step = "consult_policy" /\ Lasting(window') = Lasting(window)
      BY <1>8, <3>1
    <3>7. Lasting(window) \subseteq Lasting(window')
      BY <3>1
    <3> HIDE DEF Counts
    <3>8. Counts'
      BY <1>1, <1>8, <2>5, <2>6, <3>3, <3>4, <3>5, <3>6, <3>7, StepCounts
    <3> QED
      BY <2>9, <3>8
  <2>10. CASE phase' = "ready"
    <3>1. step \in {"final", "propose_reversal"} /\ step # OpenTicket
      BY <1>8, <2>10, StepsDiffer DEF KernelAction
    <3>2. PICK o : o = Noticed(d)
      OBVIOUS
    <3>3. Lasting(window') = Lasting(window) \cup o.line
      BY <1>1, <1>3, <1>4, <2>10, <3>2, DecideWindow DEF AllIsWell, Grows
    <3>4. o.line = IF step = "final" THEN {"rejected"}
                   ELSE IF world.valid THEN {"no_handoff"} ELSE {"refused"}
      BY <1>8, <2>1, <2>10, <3>1, <3>2, NoticedIs
    <3>5. \A s : Shows(o.line, s) <=> s = step
      BY <3>1, <3>4 DEF Shows, Status
    <3>6. calls'[OpenTicket] = calls[OpenTicket]
      BY <2>7, <2>10
    <3>7. Taken' = Taken \cup {step}
      BY <1>1, <1>8, <2>10, <3>1, <3>3, <3>5, <3>6, NoticeTakes
    <3>8. meter'.verifier_retries <= IF Shows(Lasting(window'), "final") THEN 1 ELSE 0
      <4>1. PICK la, la2 : la = Lasting(window) /\ la2 = Lasting(window')
        OBVIOUS
      <4>2. Shows(la2, "final") <=> Shows(la, "final") \/ step = "final"
        BY <3>3, <3>5, <4>1, ShowsEach
      <4>3. meter.verifier_retries <= (IF Shows(la, "final") THEN 1 ELSE 0)
            /\ meter.verifier_retries \in Nat
        BY <1>1, <4>1 DEF Counts, Meter
      <4>4. CASE step = "final"
        <5>1. meter'.verifier_retries = meter.verifier_retries + 1
          BY <1>8, <2>4, <2>10, <4>4, RetryIsMetered
        <5>2. ~Shows(la, "final")
          BY <1>8, <4>1, <4>4, StepsDiffer DEF Taken, KernelAction
        <5> QED
          BY <4>1, <4>2, <4>3, <4>4, <5>1, <5>2
      <4>5. CASE step # "final"
        <5>1. meter'.verifier_retries = meter.verifier_retries
          BY <1>8, <2>4, <2>10, <4>5
        <5> QED
          BY <4>1, <4>2, <4>3, <4>5, <5>1
      <4> QED
        BY <4>4, <4>5
    <3>9. Lasting(window) \subseteq Lasting(window')
      BY <3>3
    <3>10. calls'[OpenTicket] > 0 => "ticket" \in Lasting(window') \/ InHand(OpenTicket)'
      BY <2>8, <3>6, <3>9
    <3>11. Counts'
      BY <1>1, <1>8, <2>5, <2>6, <2>10, <3>7, <3>8, <3>9, <3>10, StepCounts
    <3> QED
      BY <2>10, <3>11
  <2> QED
    BY <1>8, <2>9, <2>10
<1> QED
  BY <1>1, <1>3, <1>4, <1>5, <1>6, <1>7, <1>8, AptDecision

\* No budget is used up while the steps are counted.
LEMMA NothingIsExhausted ==
    ASSUME Ample, AllIsWell, Counts, phase = "ready"
    PROVE  Exhausted(meter) = None
<1>1. /\ intent \in Intent /\ meter \in Meter /\ rung \in 1 .. 5
      /\ config = Narrowed(RungLayers(rung), WORKFLOWS[intent]) /\ config \in Config
  BY DEF AllIsWell, CleanInv, ScriptInv, Asked, LoopInv, TypeOK
<1>2. Taken \subseteq {step \in Step : CalledFor(step)} /\ meter.iterations <= Cardinality(Taken)
  BY DEF Counts
<1>3. Cardinality(Taken) \in 0 .. 5 /\ Cardinality(Taken) < config.max_iterations
  BY <1>1, <1>2, FewSteps
<1>4. PICK n : n = meter.iterations
  OBVIOUS
<1>5. n \in 0 .. 5 /\ n < config.max_iterations
  <2>1. n \in Nat /\ config.max_iterations \in Nat
    BY <1>1, <1>4 DEF Meter, Config
  <2> QED
    BY <1>2, <1>3, <1>4, <2>1
<1>6. meter.seconds < MaxSeconds
  <2>1. meter.seconds <= MaxWait * n /\ meter.seconds \in Nat
    BY <1>1, <1>4 DEF Counts, Meter
  <2>2. MaxWait * n <= 5 * MaxWait
    <3>1. n = 0 \/ n = 1 \/ n = 2 \/ n = 3 \/ n = 4 \/ n = 5
      BY <1>5
    <3> QED
      BY <3>1, LoopAssumption
  <2>3. MaxWait * n \in Nat /\ 5 * MaxWait \in Nat
    BY <1>5, LoopAssumption
  <2> QED
    BY <2>1, <2>2, <2>3, LoopAssumption DEF Ample
<1>7. meter.spent < MaxSpend
  <2>1. meter.spent <= n + (IF Shows(Lasting(window), "consult_policy") THEN MaxCharge ELSE 0)
    BY <1>4 DEF Counts
  <2>2. meter.spent \in Nat
    BY <1>1 DEF Meter
  <2>3. meter.spent <= n + MaxCharge
    BY <1>5, <2>1, <2>2, LoopAssumption
  <2> QED
    BY <1>5, <2>2, <2>3, LoopAssumption DEF Ample
<1>8. ~Stalled(meter)
  BY <1>1, LoopAssumption DEF Counts, Stalled, Meter, Ample
<1>9. /\ ~(meter.seconds >= MaxSeconds) /\ ~(meter.spent >= MaxSpend)
      /\ ~(meter.iterations >= config.max_iterations)
  BY <1>1, <1>4, <1>5, <1>6, <1>7, LoopAssumption DEF Meter, Config
<1> QED
  BY <1>8, <1>9 DEF Exhausted

LEMMA AskIsClean ==
    ASSUME Ample, AllIsWell, Untroubled, ScriptedAsk
    PROVE  phase' # "ended" /\ Counts'
<1>1. /\ phase = "ready" /\ Counts /\ meter \in Meter
  BY DEF AllIsWell, CleanInv, ScriptedAsk, Ask, ScriptInv, LoopInv, TypeOK
<1>2. phase' = "deciding"
  BY <1>1, NothingIsExhausted DEF ScriptedAsk, Ask
<1>3. UNCHANGED <<meter, calls, config, intent, world>>
  BY DEF ScriptedAsk, Ask, Fixed
<1>4. Lasting(window') = Lasting(window)
  BY AskWindow DEF AllIsWell
<1> QED
  BY <1>1, <1>2, <1>3, <1>4, CountsStand

LEMMA BeginIsClean ==
    ASSUME AllIsWell, Untroubled, ScriptedBegin
    PROVE  IF phase' = "ended" THEN stop' \in {"done", "needs_human"} ELSE Counts'
<1>1. /\ phase = "begin" /\ Counts /\ meter \in Meter
  BY DEF AllIsWell, CleanInv, ScriptedBegin, Begin, ScriptInv, LoopInv, TypeOK
<1>2. CASE phase' = "ended"
  BY <1>2 DEF ScriptedBegin, Begin, Ends, GoesOn
<1>3. CASE phase' # "ended"
  <2>1. phase' = "ready" /\ UNCHANGED <<meter, calls, config, intent, world, window>>
    BY <1>3 DEF ScriptedBegin, Begin, Ends, GoesOn, Fixed
  <2> QED
    BY <1>1, <1>3, <2>1, CountsStand
<1> QED
  BY <1>2, <1>3

LEMMA CalledIsClean ==
    ASSUME AllIsWell, Untroubled, ScriptedCalled, ~failed'
    PROVE  phase' # "ended" /\ Counts'
<1>1. /\ phase = "calling" /\ phase' = "ready" /\ Counts /\ meter \in Meter /\ Asked
      /\ UNCHANGED <<calls, config, intent, world>> /\ UNCHANGED gaveUp
  BY DEF AllIsWell, CleanInv, ScriptedCalled, Called, GoesOn, ScriptInv, LoopInv, TypeOK, Fixed
<1>2. PICK wait \in 0 .. MaxWait : meter' = Charged(meter, 0, wait)
  BY DEF ScriptedCalled, Called
<1>3. PICK o : Observes1(o) /\ Truthful(o) /\ Answers(meter.last[1], o.line)
  BY <1>1, CalledHears
<1>4. Lasting(window') = Lasting(window) \cup o.line
  BY <1>1, <1>3, HearWindow DEF AllIsWell, Truthful, Grows
<1>5. 0 \in Nat
  OBVIOUS
<1> QED
  BY <1>1, <1>2, <1>3, <1>4, <1>5, AnswerCounts

LEMMA ConsultedIsClean ==
    ASSUME AllIsWell, Untroubled, ScriptedConsulted
    PROVE  phase' # "ended" /\ Counts'
<1>1. /\ phase = "consulting" /\ phase' = "ready" /\ Counts /\ meter \in Meter /\ Asked
      /\ UNCHANGED <<calls, config, intent, world>> /\ UNCHANGED gaveUp
  BY DEF AllIsWell, CleanInv, ScriptedConsulted, Consulted, GoesOn, ScriptInv, LoopInv, TypeOK,
     Fixed
<1>2. PICK cost \in 1 .. MaxCharge, wait \in 0 .. MaxWait : meter' = Charged(meter, cost, wait)
  BY DEF ScriptedConsulted, Consulted
<1>3. PICK o : Observes1(o) /\ Truthful(o) /\ Answers("consult_policy", o.line)
  BY ConsultedHears
<1>4. Lasting(window') = Lasting(window) \cup o.line
  BY <1>1, <1>3, HearWindow DEF AllIsWell, Truthful, Grows
<1>5. meter.last[1] = "consult_policy"
  BY <1>1 DEF Counts
<1>6. cost \in Nat /\ cost <= MaxCharge
  BY LoopAssumption
<1> QED
  BY <1>1, <1>2, <1>3, <1>4, <1>5, <1>6, AnswerCounts

LEMMA CleanStep ==
    ASSUME Ample, \A x, y \in Clause \ {TheClause} : x = y,
           AllIsWell, [ScriptedNext]_scriptedVars
    PROVE  CleanInv'
<1>1. /\ UNCHANGED <<config, rung, intent, world>> /\ (failed => failed')
      /\ gaveUp' < 2 => gaveUp < 2
  BY NothingIsForgotten, WindowStep DEF AllIsWell
<1>2. rung' \in 1 .. 5 /\ config' = Narrowed(RungLayers(rung'), WORKFLOWS[intent'])
  BY <1>1 DEF AllIsWell, CleanInv
<1>3. ASSUME Untroubled'
      PROVE  IF phase' = "ended" THEN stop' \in {"done", "needs_human"} ELSE Counts'
  <2>1. Untroubled /\ ~failed'
    BY <1>1, <1>3 DEF Untroubled
  <2>2. CASE UNCHANGED scriptedVars
    <3>1. UNCHANGED <<phase, stop, window, meter, calls>>
      BY <2>2 DEF scriptedVars, vars
    <3>2. CASE phase = "ended"
      BY <2>1, <3>1, <3>2 DEF AllIsWell, CleanInv
    <3>3. CASE phase # "ended"
      <4>1. Counts /\ meter \in Meter
        BY <2>1, <3>3 DEF AllIsWell, CleanInv, ScriptInv, LoopInv, TypeOK
      <4>2. Counts'
        BY <1>1, <3>1, <4>1, CountsStand
      <4> QED
        BY <3>1, <3>3, <4>2
    <3> QED
      BY <3>2, <3>3
  <2>3. CASE ScriptedBegin
    BY <2>1, <2>3, BeginIsClean
  <2>4. CASE ScriptedAsk
    BY <2>1, <2>4, AskIsClean
  <2>5. CASE ScriptedDecide
    BY <2>1, <2>5, DecideIsClean
  <2>6. CASE ScriptedCalled
    BY <2>1, <2>6, CalledIsClean
  <2>7. CASE ScriptedConsulted
    BY <2>1, <2>7, ConsultedIsClean
  <2> QED
    BY <2>2, <2>3, <2>4, <2>5, <2>6, <2>7 DEF ScriptedNext
<1> QED
  BY <1>2, <1>3 DEF CleanInv

LEMMA CleanInit == ScriptedInit => CleanInv
<1> SUFFICES ASSUME ScriptedInit PROVE CleanInv
  OBVIOUS
<1>1. /\ rung \in 1 .. 5 /\ config = Narrowed(RungLayers(rung), WORKFLOWS[intent])
      /\ phase = "begin" /\ meter = NewMeter
  BY DEF ScriptedInit, Init
<1>2. calls[OpenTicket] = 0
  <2>1. calls = [t \in {LookupTransaction, OpenTicket} |-> 0]
    BY DEF ScriptedInit
  <2> QED
    BY <2>1
<1>3. PICK la : la = Lasting(window)
  OBVIOUS
<1>4. \A sign \in la : sign = "ticket"
  BY <1>3, WindowInit, LastingIsKnown DEF WindowInv
<1>5. \A step : ~Shows(la, step) /\ ~InHand(step)
  BY <1>1, <1>4 DEF Shows, Status, InHand
<1>6. Taken = {}
  BY <1>2, <1>3, <1>5 DEF Taken
<1>7. Cardinality({}) = 0
  BY FS_EmptySet
<1>8. /\ meter.iterations = 0 /\ meter.spent = 0 /\ meter.seconds = 0 /\ meter.streak = 0
      /\ meter.verifier_retries = 0 /\ meter.last = None
  BY <1>1 DEF NewMeter
<1>9. MaxWait * 0 = 0 /\ 0 <= 0 + MaxCharge
  BY LoopAssumption
<1>10. Counts
  BY <1>1, <1>2, <1>3, <1>5, <1>6, <1>7, <1>8, <1>9 DEF Counts
<1> QED
  BY <1>1, <1>10 DEF CleanInv

\* The scripted policy brings its loop to a clean stop (decide, _drive), whatever the
\* window has to compact: no step is taken twice, so that no budget, no retry and
\* no stall is due before it is done.  The limits leave room for its steps, and
\* there is at most one other clause to quote.
THEOREM ScriptAlwaysEndsClean ==
    ASSUME Ample, \A x, y \in Clause \ {TheClause} : x = y
    PROVE  ScriptedSpec => []EndsClean
<1>1. ScriptedInit => CleanInv
  BY CleanInit
<1>2. /\ ScriptInv /\ WindowInv /\ SignsMean /\ TicketInv /\ CleanInv
      /\ [ScriptedNext]_scriptedVars
      => CleanInv'
  BY CleanStep DEF AllIsWell, TicketInv
<1>3. CleanInv => EndsClean
  BY DEF CleanInv, Untroubled, EndsClean
<1> QED
  BY <1>1, <1>2, <1>3, ScriptInvariant, WindowInvariant, SignsInvariant, TicketInvariant, PTL
     DEF ScriptedSpec
==============================================================================
