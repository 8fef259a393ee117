----------------------------- MODULE SupportLoop -----------------------------
(***************************************************************************)
(* One run of the support loop (sanwaad/loop): a model decides, the kernel *)
(* acts, checks and observes, until one of the reasons to stop is due.     *)
(*                                                                         *)
(* An action is what the kernel does between two awaits.  What a model     *)
(* decides, what a tool, the policy sub-agent or the validator answers,    *)
(* and what all of it costs, is the environment's choice.                  *)
(***************************************************************************)
EXTENDS Integers

CONSTANTS
    Tool,                \* what LOOP_TOOLS lists
    SearchPolicy,        \* the one tool that retrieves clauses
    Clause,
    Fact,                \* references and amounts a text can state
    Workflow,            \* [tools, max_iterations] of every intent
    MaxIterations,       \* of the LoopBudget, as the next four
    MaxSpend,            \* tokens and rupees, counted as one
    MaxSeconds,
    MaxVerifierRetries,
    StallRepeats,
    MaxCharge,           \* bound: what one model call spends at most
    MaxWait,             \* bound: how long one await takes at most
    None

VARIABLES
    config,     \* what this run may do
    sensitive,  \* the customer's message speaks of law or fraud
    phase,      \* where _drive stands
    meter,
    seen,       \* the facts in _seen, which the verifiers read
    clauses,    \* clauses_seen
    stop,       \* run.stop_reason, or None while it runs
    answer,     \* run.answer
    handoff,    \* what run.handoff is about
    observed,   \* history: facts from the customer, the records, or the sub-agent
    quoted,     \* history: facts the kernel repeated from what the model had written
    validated   \* history: a proposal passed every check

vars == <<config, sensitive, phase, meter, seen, clauses, stop, answer, handoff,
          observed, quoted, validated>>

KernelAction == {"final", "consult_policy", "propose_reversal", "handoff"}

Action == Tool \cup KernelAction \cup {"unknown"}

StopReason == {"done", "needs_human", "max_iterations", "budget_exhausted",
               "timeout", "stalled", "verifier_exhausted", "error"}

ASSUME LoopAssumption ==
    /\ SearchPolicy \in Tool
    /\ Tool \cap (KernelAction \cup {"unknown"}) = {}
    /\ Workflow \subseteq [tools : SUBSET Tool, max_iterations : Nat]
    /\ MaxIterations \in Nat /\ MaxSpend \in Nat \ {0} /\ MaxSeconds \in Nat \ {0}
    /\ MaxVerifierRetries \in Nat /\ StallRepeats \in Nat \ {0}
    /\ MaxCharge \in Nat \ {0} /\ MaxWait \in Nat

HandoffReason == {"language", "asked", "proposal"}

-----------------------------------------------------------------------------
(* What a loop may do.  A capability needs those below it (check_layering); *)
(* a workflow narrows the tools and the passes.                             *)

Layers == [tools : SUBSET Tool, verifiers : BOOLEAN, memory : BOOLEAN,
           workflows : BOOLEAN, human_handoff : BOOLEAN, subagents : BOOLEAN]

Layered(c) ==
    /\ c.human_handoff \/ c.subagents => c.workflows
    /\ c.workflows => c.memory
    /\ c.memory => c.verifiers
    /\ c.verifiers => c.tools # {}

Config == [tools : SUBSET Tool, verifiers : BOOLEAN, human_handoff : BOOLEAN,
           subagents : BOOLEAN, max_iterations : Nat]

Narrowed(c, flow) ==
    [tools |-> IF c.workflows THEN c.tools \cap flow.tools ELSE c.tools,
     verifiers |-> c.verifiers,
     human_handoff |-> c.human_handoff, subagents |-> c.subagents,
     max_iterations |-> IF c.workflows THEN flow.max_iterations ELSE MaxIterations]

-----------------------------------------------------------------------------
(* The meter.  Of the recent actions it is enough to know the last one and  *)
(* how often in a row it was taken; the answer of a final is no part of it. *)

Answer == [facts : SUBSET Fact, cites : SUBSET Clause,
           timeline : BOOLEAN, blocked : BOOLEAN]

ASSUME NoneAssumption ==
    None \notin StopReason \cup HandoffReason \cup Answer \cup (Action \X SUBSET Fact)

\* Only a final carries an answer, and it may be empty: None.
Decision == {d \in [action : Action, args : SUBSET Fact, answer : Answer \cup {None}] :
                d.action # "final" => d.answer = None}

Meter == [iterations : Nat, spent : Nat, seconds : Nat, verifier_retries : Nat,
          last : (Action \X SUBSET Fact) \cup {None}, streak : Nat]

NewMeter == [iterations |-> 0, spent |-> 0, seconds |-> 0, verifier_retries |-> 0,
             last |-> None, streak |-> 0]

\* A model call is paid for.
Charged(m, cost, wait) == [m EXCEPT !.spent = @ + cost, !.seconds = @ + wait]

RecordAction(m, d) ==
    LET fingerprint == <<d.action, d.args>>
    IN  [m EXCEPT !.last = fingerprint,
                  !.streak = IF m.last = fingerprint THEN @ + 1 ELSE 1]

Stalled(m) == m.streak >= StallRepeats

\* Mutant: a pass whose final answer is empty is not counted, and never stalls.
AfterAnswer(m, d, cost, wait) ==
    IF d.action = "final" /\ d.answer = None THEN m
    ELSE RecordAction(Charged([m EXCEPT !.iterations = @ + 1], cost, wait), d)

\* One pass: the decision has come.
AfterPass(m, d, cost, wait) ==
    RecordAction(Charged([m EXCEPT !.iterations = @ + 1], cost, wait), d)

\* Mutant: a budget that is used up exactly stops nothing.
ExhaustedLate(m) ==
    IF m.seconds > MaxSeconds THEN "timeout"
    ELSE IF m.spent > MaxSpend THEN "budget_exhausted"
    ELSE IF m.iterations > config.max_iterations THEN "max_iterations"
    ELSE IF Stalled(m) THEN "stalled"
    ELSE None

Exhausted(m) ==
    IF m.seconds >= MaxSeconds THEN "timeout"
    ELSE IF m.spent >= MaxSpend THEN "budget_exhausted"
    ELSE IF m.iterations >= config.max_iterations THEN "max_iterations"
    ELSE IF Stalled(m) THEN "stalled"
    ELSE None

-----------------------------------------------------------------------------
(* The verifiers of a final answer.                                         *)

CheckGuardrails(a) == ~a.blocked

\* Mutant: only the facts of an answer that states a timeline are traced.
FactsOfTimelines(a) == a.timeline => a.facts \subseteq seen

CheckFactsTraced(a) == a.facts \subseteq seen

\* Mutant: a clause was retrieved, and need not be cited.
TimelinesBacked(a) == a.timeline => clauses # {}

CheckTimelinesCited(a) == a.timeline => a.cites \cap clauses # {}

CheckCitationsRetrieved(a) == a.cites \subseteq clauses

RunVerifiers(a) ==
    /\ CheckGuardrails(a)
    /\ CheckFactsTraced(a)
    /\ CheckTimelinesCited(a)
    /\ CheckCitationsRetrieved(a)

-----------------------------------------------------------------------------

Init ==
    /\ \E c \in Layers, flow \in Workflow : Layered(c) /\ config = Narrowed(c, flow)
    /\ sensitive \in BOOLEAN
    /\ seen \in SUBSET Fact      \* the message's, and those recalled from earlier turns
    /\ observed = seen
    /\ phase = "begin"
    /\ meter = NewMeter
    /\ clauses = {} /\ quoted = {}
    /\ stop = None /\ answer = None /\ handoff = None
    /\ validated = FALSE

Ends(reason) == phase' = "ended" /\ stop' = reason

GoesOn == phase' = "ready" /\ stop' = stop

\* What a tool, the sub-agent or the validator reports.
Observes(facts) ==
    /\ seen' = seen \cup facts
    /\ observed' = observed \cup facts

\* A note of the kernel that repeats what the model wrote.
Quotes(facts) ==
    /\ seen' = seen \cup facts
    /\ quoted' = quoted \cup facts

Unheard == UNCHANGED <<seen, clauses, observed, quoted>>

\* A sensitive message is decided before a token is spent.
Begin ==
    /\ phase = "begin"
    /\ IF config.human_handoff /\ sensitive
       THEN Ends("needs_human") /\ handoff' = "language"
       ELSE GoesOn /\ UNCHANGED handoff
    /\ Unheard
    /\ UNCHANGED <<config, sensitive, meter, answer, validated>>

\* The top of the loop: the budgets, then the model.
Ask ==
    /\ phase = "ready"
    /\ IF Exhausted(meter) # None
       THEN Ends(Exhausted(meter))
       ELSE phase' = "deciding" /\ UNCHANGED stop
    /\ Unheard
    /\ UNCHANGED <<config, sensitive, meter, answer, handoff, validated>>

\* What the kernel awaits raises; the run is recorded and not raised further.
Fails ==
    /\ phase \in {"deciding", "calling", "consulting"}
    /\ Ends("error")
    /\ Unheard
    /\ UNCHANGED <<config, sensitive, meter, answer, handoff, validated>>

-----------------------------------------------------------------------------
(* What the kernel does with a decision; m is the meter with this pass.     *)

Accepted(a, m) ==
    /\ Ends("done")
    /\ answer' = a
    /\ meter' = m
    /\ Unheard

Rejected(m) == [m EXCEPT !.verifier_retries = @ + 1]

\* The feedback names what the answer stated and nothing had reported.
Feedback(a) ==
    /\ Quotes(a.facts \ seen)
    /\ UNCHANGED <<clauses, observed>>

\* Mutant: one retry more than the budget grants.
DraftOnceMore(a, m) ==
    IF ~config.verifiers \/ RunVerifiers(a)
    THEN Accepted(a, m)
    ELSE /\ meter' = Rejected(m)
         /\ UNCHANGED answer
         /\ IF m.verifier_retries > MaxVerifierRetries
            THEN Ends("verifier_exhausted") /\ Unheard
            ELSE GoesOn /\ Feedback(a)

Draft(a, m) ==
    IF ~config.verifiers \/ RunVerifiers(a)
    THEN Accepted(a, m)
    ELSE /\ meter' = Rejected(m)
         /\ UNCHANGED answer
         /\ IF meter'.verifier_retries > MaxVerifierRetries
            THEN Ends("verifier_exhausted") /\ Unheard
            ELSE GoesOn /\ Feedback(a)

Finish(d, m) ==
    /\ d.action = "final"
    /\ IF d.answer = None
       THEN GoesOn /\ meter' = m /\ UNCHANGED answer /\ Unheard
       ELSE Draft(d.answer, m)
    /\ UNCHANGED <<handoff, validated>>

Handoff(d, m) ==
    /\ d.action = "handoff"
    /\ IF config.human_handoff
       THEN Ends("needs_human") /\ handoff' = "asked"
       ELSE GoesOn /\ UNCHANGED handoff
    /\ meter' = m
    /\ Unheard
    /\ UNCHANGED <<answer, validated>>

\* Mutant: the hand-over is left to the model.
ProposalNoted(m) ==
    /\ validated' = TRUE
    /\ GoesOn
    /\ meter' = m
    /\ Unheard
    /\ UNCHANGED <<answer, handoff>>

\* Without a hand-over nobody can approve a valid proposal, and the model is told so.
ProposalValid(m) ==
    /\ validated' = TRUE
    /\ IF config.human_handoff
       THEN Ends("needs_human") /\ handoff' = "proposal"
       ELSE GoesOn /\ UNCHANGED handoff
    /\ meter' = m
    /\ Unheard
    /\ UNCHANGED answer

\* The refusal repeats some of the arguments, and some of what the ledger says.
ProposalRefused(d, m) ==
    /\ \E named \in SUBSET d.args, told \in SUBSET Fact :
          /\ seen' = seen \cup named \cup told
          /\ quoted' = quoted \cup named
          /\ observed' = observed \cup told
    /\ GoesOn
    /\ meter' = m
    /\ UNCHANGED <<clauses, answer, handoff, validated>>

\* The ledger cannot be read.
ProposalFails(m) ==
    /\ Ends("error")
    /\ meter' = m
    /\ Unheard
    /\ UNCHANGED <<answer, handoff, validated>>

Propose(d, m) ==
    /\ d.action = "propose_reversal"
    /\ ProposalValid(m) \/ ProposalRefused(d, m) \/ ProposalFails(m)

\* An action this configuration does not grant is refused as an observation.
Refused(d) ==
    \/ d.action = "consult_policy" /\ ~config.subagents
    \/ d.action \notin config.tools \cup KernelAction

Refuse(d, m) ==
    /\ Refused(d)
    /\ GoesOn
    /\ meter' = m
    /\ Unheard
    /\ UNCHANGED <<answer, handoff, validated>>

Call(d, m) ==
    /\ d.action \in config.tools \cup {"consult_policy"}
    /\ ~Refused(d)
    /\ phase' = IF d.action = "consult_policy" THEN "consulting" ELSE "calling"
    /\ meter' = m
    /\ Unheard
    /\ UNCHANGED <<stop, answer, handoff, validated>>

Decides(d, m) ==
    \/ Finish(d, m)
    \/ Handoff(d, m)
    \/ Propose(d, m)
    \/ Refuse(d, m)
    \/ Call(d, m)

Decide ==
    /\ phase = "deciding"
    /\ \E d \in Decision, cost \in 1 .. MaxCharge, wait \in 0 .. MaxWait :
          Decides(d, AfterPass(meter, d, cost, wait))
    /\ UNCHANGED <<config, sensitive>>

\* A tool has answered, or failed, which is an observation as well.
Called ==
    /\ phase = "calling"
    /\ \E facts \in SUBSET Fact : Observes(facts)
    /\ \E found \in SUBSET Clause :
          /\ found # {} => meter.last[1] = SearchPolicy
          /\ clauses' = clauses \cup found
    /\ \E wait \in 0 .. MaxWait : meter' = Charged(meter, 0, wait)
    /\ GoesOn
    /\ UNCHANGED <<config, sensitive, answer, handoff, quoted, validated>>

\* The sub-agent's own model call is charged to the loop.
Consulted ==
    /\ phase = "consulting"
    /\ \E facts \in SUBSET Fact : Observes(facts)
    /\ \E cited \in SUBSET Clause : clauses' = clauses \cup cited
    /\ \E cost \in 1 .. MaxCharge, wait \in 0 .. MaxWait : meter' = Charged(meter, cost, wait)
    /\ GoesOn
    /\ UNCHANGED <<config, sensitive, answer, handoff, quoted, validated>>

Next == Begin \/ Ask \/ Fails \/ Decide \/ Called \/ Consulted

\* Every await ends: the model's, the tools' and the sub-agent's have timeouts.
Fairness == WF_vars(Next)

Spec == Init /\ [][Next]_vars

FairSpec == Spec /\ Fairness

-----------------------------------------------------------------------------
(* Properties.                                                              *)

TypeOK ==
    /\ config \in Config
    /\ sensitive \in BOOLEAN
    /\ phase \in {"begin", "ready", "deciding", "calling", "consulting", "ended"}
    /\ meter \in Meter
    /\ meter.verifier_retries <= MaxVerifierRetries + 1
    /\ seen \subseteq Fact /\ observed \subseteq Fact /\ quoted \subseteq Fact
    /\ clauses \subseteq Clause
    /\ stop \in StopReason \cup {None}
    /\ (stop # None) <=> (phase = "ended")
    /\ answer \in Answer \cup {None}
    /\ handoff \in HandoffReason \cup {None}
    /\ validated \in BOOLEAN

\* "Done" means verified (_finish): an answer that leaves a loop with verifiers
\* promises nothing, cites only clauses that were retrieved in this run, has one
\* behind its timeline, and states nothing that nobody ever mentioned: every
\* fact was reported, or had been repeated by the kernel in a refusal.
DoneMeansVerified ==
    config.verifiers /\ answer # None =>
        /\ stop = "done"
        /\ ~answer.blocked
        /\ answer.cites \subseteq clauses
        /\ answer.timeline => answer.cites # {}
        /\ answer.facts \subseteq observed \cup quoted

\* Whoever may hand over does (_drive, _propose): once a reversal has passed every
\* check, or the message speaks of law or fraud, the run ends with a person and
\* sends no answer of its own; and only a loop that has somebody to hand over to
\* ends that way.
PeopleDecide ==
    /\ stop = "needs_human" <=> handoff # None
    /\ handoff # None => config.human_handoff /\ answer = None
    /\ config.human_handoff /\ validated => handoff = "proposal"
    /\ config.human_handoff /\ sensitive => meter.iterations = 0

\* A budget stops the next pass and does not notice after it has been paid for
\* (Meter.exhausted): a run goes over it by what was spent in its last pass, on
\* the model and, at most once, on the sub-agent; it takes no pass too many.
OverBudgetByOnePass ==
    /\ meter.iterations <= config.max_iterations
    /\ meter.spent < MaxSpend + 2 * MaxCharge
    /\ meter.seconds < MaxSeconds + 2 * MaxWait

\* A loop that never decides it is finished is stopped (run_loop).
LoopEnds == <>(phase = "ended")

\* Every amount and identifier in a verified reply was observed
\* (check_facts_traced).
FactsObserved ==
    config.verifiers /\ answer # None => answer.facts \subseteq observed

==============================================================================
