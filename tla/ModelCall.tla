------------------------------- MODULE ModelCall -------------------------------
(***************************************************************************)
(* One structured call of a model on behalf of a case (sanwaad/llm.py), and *)
(* the model the router picks for it (sanwaad/router.py).                   *)
(*                                                                         *)
(* A call makes attempts until one is answered in the right shape: a model *)
(* that is slow or refuses is left for the fallback at once, one that      *)
(* answers in another shape is asked again first.  When no model is left,  *)
(* or none may be asked, the step takes its safe default and the outcome   *)
(* says why.  Times and tokens are not modelled: an answer costs something *)
(* between nothing and MaxCharge.                                          *)
(***************************************************************************)
EXTENDS Integers

CONSTANTS
    TierTriage, TierDraft, TierReasoning,  \* the models; a deployment may make them the same
    SchemaRetries,  \* schema_retries
    Budget,         \* MAX_CASE_COST_INR
    MaxCharge,      \* bound: what one answer costs at most
    None

Tier == {TierTriage, TierDraft, TierReasoning}

\* Why a step has no answer of a model: NON_CALL_MODELS and the degraded ones.
NoModel == {"offline", "over_budget", "degraded"}

Stage == {"triage", "triage_summary", "judge", "draft", "ground_check", "plan"}

VARIABLES
    call,     \* the call in progress, or None
    outcome,  \* what the last call came to, until its node has used it, or None
    spent,    \* the sum of the case's cost entries: _spent
    paid      \* history: what the answers to this case have cost

callVars == <<call, outcome, spent, paid>>

-----------------------------------------------------------------------------

\* The model a stage asks first, and where it turns when that one fails.
Route(stage, severity, revision, injected) ==
    CASE stage \in {"triage", "triage_summary", "judge"} -> <<TierTriage, TierDraft>>
      [] stage \in {"ground_check", "plan"} -> <<TierDraft, TierReasoning>>
      [] stage = "draft" /\ (revision > 0 \/ injected \/ severity >= 4) ->
            <<TierReasoning, TierDraft>>
      [] OTHER -> <<TierDraft, TierReasoning>>

\* Attempts one call makes at most.
AttemptsPerCall == 2 * (1 + SchemaRetries)

Call == [stage : Stage, model : Tier, fallback : Tier \cup {None},
         retries : 0 .. SchemaRetries, cost : Nat]

Outcome == [stage : Stage, by : Tier \cup NoModel, cost : Nat]

ASSUME CallAssumption ==
    /\ SchemaRetries \in Nat /\ Budget \in Nat /\ MaxCharge \in Nat
    /\ Tier \cap NoModel = {} /\ None \notin Tier \cup NoModel
    /\ None \notin Call /\ None \notin Outcome

\* A fallback that is the model itself is none.
NewCall(stage, r) ==
    [stage |-> stage, model |-> r[1], fallback |-> IF r[2] = r[1] THEN None ELSE r[2],
     retries |-> 0, cost |-> 0]

Settled(stage, by, cost) == [stage |-> stage, by |-> by, cost |-> cost]

Degraded(o) == o.by \in {"over_budget", "degraded"}

Answered(o) == o.by \in Tier

CallInit == call = None /\ outcome = None /\ spent = 0 /\ paid = 0

Idle == call = None /\ outcome = None

\* Mutant: the ceiling is not looked at before a call.
StructuredUnchecked(stage, r, online) ==
    /\ IF ~online THEN outcome' = Settled(stage, "offline", 0) /\ UNCHANGED call
       ELSE call' = NewCall(stage, r) /\ UNCHANGED outcome
    /\ UNCHANGED <<spent, paid>>

\* The entry of structured().
Structured(stage, r, online) ==
    /\ \/ spent >= Budget /\ outcome' = Settled(stage, "over_budget", 0) /\ UNCHANGED call
       \/ spent < Budget /\ ~online /\ outcome' = Settled(stage, "offline", 0) /\ UNCHANGED call
       \/ spent < Budget /\ online /\ call' = NewCall(stage, r) /\ UNCHANGED outcome
    /\ UNCHANGED <<spent, paid>>

\* Mutant: a call that failed costs nothing on its entry.
GiveUpFree(c) ==
    IF c.fallback # None
    THEN /\ call' = [c EXCEPT !.model = c.fallback, !.fallback = None, !.retries = 0]
         /\ UNCHANGED outcome
    ELSE call' = None /\ outcome' = Settled(c.stage, "degraded", 0)

\* The model is given up, after what the call has cost so far: the next one, or
\* the safe default.
GiveUp(c) ==
    IF c.fallback # None
    THEN /\ call' = [c EXCEPT !.model = c.fallback, !.fallback = None, !.retries = 0]
         /\ UNCHANGED outcome
    ELSE call' = None /\ outcome' = Settled(c.stage, "degraded", c.cost)

\* A time-out or an error of the provider.
AttemptFails ==
    /\ call # None
    /\ GiveUp(call)
    /\ UNCHANGED <<spent, paid>>

\* An answer that does not fit the schema: it is paid for and asked again.
AttemptMisshapen(cost) ==
    /\ call # None
    /\ paid' = paid + cost
    /\ LET c == [call EXCEPT !.cost = @ + cost]
       IN  IF c.retries < SchemaRetries
           THEN call' = [c EXCEPT !.retries = @ + 1] /\ UNCHANGED outcome
           ELSE GiveUp(c)
    /\ UNCHANGED spent

AttemptAnswered(cost) ==
    /\ call # None
    /\ paid' = paid + cost
    /\ call' = None
    /\ outcome' = Settled(call.stage, call.model, call.cost + cost)
    /\ UNCHANGED spent

Attempt ==
    \/ AttemptFails
    \/ \E cost \in 0 .. MaxCharge : AttemptMisshapen(cost) \/ AttemptAnswered(cost)

\* The node that asked goes on: its cost entry joins the case's.
Used(stage) ==
    /\ outcome # None /\ outcome.stage = stage
    /\ outcome' = None
    /\ spent' = spent + outcome.cost
    /\ UNCHANGED <<call, paid>>

CallTypeOK ==
    /\ call \in Call \cup {None}
    /\ outcome \in Outcome \cup {None}
    /\ spent \in Nat /\ paid \in Nat
================================================================================
