--------------------------------- MODULE Intake ---------------------------------
(***************************************************************************)
(* The first half of a case: from triage to the review gate                *)
(* (sanwaad/graph/nodes.py, sanwaad/graph/graph.py), with the cache that   *)
(* triage shares with every other case and with Explore                    *)
(* (sanwaad/caching.py) and the decision model that may triage instead     *)
(* (sanwaad/triage_backends.py).                                           *)
(*                                                                         *)
(* Each node that asks a model is two steps or more: what it does until it *)
(* waits for the answer, the attempts of ModelCall, and what it does with  *)
(* the outcome.  What a model says is the environment's choice; so are the *)
(* readings of the pattern, the author and the ledger.                     *)
(*                                                                         *)
(* Other cases meet this one in the cache alone, and only until this one   *)
(* is triaged: after that they are left out.                               *)
(***************************************************************************)
EXTENDS ModelCall, Sequences, SequencesExt

CONSTANTS
    Text,          \* texts a comment may have
    Regulatory,    \* those _REGULATORY_PATTERNS matches
    Injected,      \* those that read like instructions
    Elsewhere,     \* those that other cases bring while this one is triaged
    Similar,       \* pairs of texts the semantic cache takes for the same
    Answer,        \* triages a model may give
    Stub,          \* the keyword triage of a text: Text -> Answer
    Brand,         \* the cache's namespaces
    Own,           \* this company's
    MaxEntries,    \* of the cache
    TTL,           \* ticks an entry stays fresh
    MaxRevisions,  \* MAX_REVISIONS
    AutoMax,       \* auto_post_max_severity
    TicketMin,     \* ticket_min_severity
    MaxTraffic     \* bound: triages of other cases

TriageOf == [complaint : BOOLEAN, severity : 1 .. 5]

ASSUME IntakeAssumption ==
    /\ Regulatory \subseteq Text /\ Injected \subseteq Text /\ Elsewhere \subseteq Text
    /\ Similar \subseteq Text \X Text
    /\ Answer \subseteq TriageOf
    /\ Stub \in [Text -> TriageOf]
    /\ \A t \in Regulatory : Stub[t].severity = 5
    /\ Own \in Brand
    /\ MaxEntries \in Nat \ {0} /\ TTL \in Nat \ {0}
    /\ MaxRevisions \in Nat \ {0} /\ AutoMax \in 0 .. 3 /\ TicketMin \in 1 .. 5
    /\ MaxTraffic \in Nat

VARIABLES
    online,     \* there is a key for the models
    text,       \* of the complaint
    next,       \* the node at work
    triage,     \* as the next five: what the nodes have written of the case
    crisis,
    draft,
    revisions,
    grounding,
    actions,    \* the kinds of action proposed
    cache,      \* TRIAGE_CACHE, in the order of creation
    traffic,    \* history: triages of other cases so far
    readFrom,   \* history: the entry the case's triage was read from
    verified    \* history: a model has found the draft as it stands grounded

nodeVars == <<triage, crisis, draft, revisions, grounding, actions, verified>>
vars == <<callVars, online, text, next, nodeVars, cache, traffic, readFrom>>

Node == {"triage", "judge", "prioritise", "draft", "ground_check", "plan",
         "review_gate", "close"}

-----------------------------------------------------------------------------
(* The cache.  The model in the key is the one triage is routed to, always  *)
(* the same; by is the one that answered.                                   *)

Entry == [brand : Brand, text : Text, answer : TriageOf, by : Tier \cup NoModel, age : 0 .. TTL]

Fresh(e) == e.age < TTL

Exact(brand, t) == {e \in ToSet(cache) : Fresh(e) /\ e.brand = brand /\ e.text = t}

\* Mutant: the neighbours of every brand are searched.
NearOfAnyBrand(brand, t) == {e \in ToSet(cache) : Fresh(e) /\ <<e.text, t>> \in Similar}

Near(brand, t) == {e \in ToSet(cache) : Fresh(e) /\ e.brand = brand /\ <<e.text, t>> \in Similar}

\* What get may find: the very text, or one close to it.
Hits(brand, t) == IF Exact(brand, t) # {} THEN Exact(brand, t) ELSE Near(brand, t)

\* The oldest entry gives way when the cache is full, also to a text it holds,
\* whose entry is replaced.
Put(brand, t, answer, by) ==
    LET kept == IF Len(cache) >= MaxEntries THEN Tail(cache) ELSE cache
        Held(i) == kept[i].brand = brand /\ kept[i].text = t
        others == IF \E i \in DOMAIN kept : Held(i)
                  THEN RemoveAt(kept, CHOOSE i \in DOMAIN kept : Held(i)) ELSE kept
    IN  Append(others, [brand |-> brand, text |-> t, answer |-> answer, by |-> by, age |-> 0])

\* Mutant: the keyword stub of an outage is kept too.
KeptAlways(brand, t, answer, by) == Put(brand, t, answer, by)

\* Only an answer of a model is kept.
Kept(brand, t, answer, by) ==
    IF by \in Tier THEN Put(brand, t, answer, by) ELSE cache

-----------------------------------------------------------------------------
(* Triage.                                                                  *)

Init ==
    /\ CallInit
    /\ online \in BOOLEAN
    /\ text \in Text
    /\ next = "triage"
    /\ triage = None /\ draft = None /\ grounding = None
    /\ crisis = FALSE /\ revisions = 0 /\ actions = {} /\ verified = FALSE
    /\ cache = <<>> /\ traffic = 0 /\ readFrom = None

\* Mutant: a severity that was read from the cache is left as it is.
OverriddenWhenAsked(answer) ==
    IF text \in Regulatory /\ answer.severity < 5 /\ outcome # None
    THEN [answer EXCEPT !.severity = 5] ELSE answer

\* The comment's own words outrank the model's severity.
Overridden(answer) ==
    IF text \in Regulatory /\ answer.severity < 5 THEN [answer EXCEPT !.severity = 5] ELSE answer

Triaged(answer) == triage' = Overridden(answer) /\ next' = "judge"

CaseUnchanged == UNCHANGED <<crisis, draft, revisions, grounding, actions, verified>>

\* llm_triage: an earlier answer will do, or a model is asked.
TriageByLLM ==
    \/ \E e \in Hits(Own, text) :
          /\ Triaged(e.answer) /\ readFrom' = e
          /\ UNCHANGED callVars
    \/ /\ Hits(Own, text) = {}
       /\ Structured("triage", Route("triage", 1, 0, FALSE), online)
       /\ UNCHANGED <<next, triage, readFrom>>

\* _decision_triage: the labels are another model's, and it is sure of them;
\* their words are asked for.  Unsure or unavailable, it leaves all to llm_triage.
TriageByDecision ==
    /\ Structured("triage_summary", Route("triage_summary", 1, 0, FALSE), online)
    /\ UNCHANGED <<next, triage, readFrom>>

Triage ==
    /\ next = "triage" /\ Idle
    /\ TriageByLLM \/ TriageByDecision
    /\ CaseUnchanged /\ UNCHANGED <<online, text, cache, traffic>>

TriageAnswered ==
    /\ next = "triage" /\ Used("triage")
    /\ \E answer \in IF Answered(outcome) THEN Answer ELSE {Stub[text]} :
          /\ Triaged(answer)
          /\ cache' = Kept(Own, text, answer, outcome.by)
    /\ CaseUnchanged /\ UNCHANGED <<online, text, traffic, readFrom>>

\* The labels stand whatever became of the words.
SummaryAnswered ==
    /\ next = "triage" /\ Used("triage_summary")
    /\ \E labels \in Answer : Triaged(labels)
    /\ CaseUnchanged /\ UNCHANGED <<online, text, cache, traffic, readFrom>>

\* Another case, or another company's in Explore, is triaged meanwhile: a hit
\* leaves the cache as it is, a miss asks a model.
OtherTriage ==
    /\ next = "triage" /\ online /\ traffic < MaxTraffic
    /\ \E brand \in Brand, t \in Elsewhere :
          /\ Hits(brand, t) = {}
          /\ \E by \in {TierTriage, TierDraft, "degraded"} :
             \E answer \in IF by \in Tier THEN Answer ELSE {Stub[t]} :
                cache' = Kept(brand, t, answer, by)
    /\ traffic' = traffic + 1
    /\ UNCHANGED <<callVars, online, text, next, nodeVars, readFrom>>

Aged(e) == [e EXCEPT !.age = IF @ < TTL THEN @ + 1 ELSE @]

Tick ==
    /\ next = "triage"
    /\ \E i \in DOMAIN cache : Fresh(cache[i])
    /\ cache' = [i \in DOMAIN cache |-> Aged(cache[i])]
    /\ UNCHANGED <<callVars, online, text, next, nodeVars, traffic, readFrom>>

-----------------------------------------------------------------------------
(* From the judge to the plan.                                              *)

Asks(stage) ==
    /\ Structured(stage, Route(stage, triage.severity, revisions, text \in Injected), online)
    /\ UNCHANGED <<next, nodeVars, online, text, cache, traffic, readFrom>>

ElseUnchanged == UNCHANGED <<online, text, triage, cache, traffic, readFrom>>

WantsReply == triage.complaint \/ triage.severity >= 4

\* A second opinion is bought for some authors, when a reply is in question.
Judge ==
    /\ next = "judge" /\ Idle
    /\ \/ WantsReply /\ Asks("judge")
       \/ next' = "prioritise" /\ UNCHANGED <<callVars, nodeVars>> /\ ElseUnchanged

JudgeAnswered ==
    /\ next = "judge" /\ Used("judge")
    /\ next' = "prioritise"
    /\ CaseUnchanged /\ ElseUnchanged

\* Whether the case is drafted for: its pattern and its author may be any.
Prioritise ==
    /\ next = "prioritise"
    /\ \E wave, worthy \in BOOLEAN :
          /\ crisis' = wave
          /\ next' = IF wave \/ (worthy /\ WantsReply) THEN "draft" ELSE "close"
    /\ UNCHANGED <<draft, revisions, grounding, actions, verified, callVars>> /\ ElseUnchanged

Draft == next = "draft" /\ Idle /\ Asks("draft")

\* Mutant: a draft of the stub is no revision.
RevisionOfModel == IF Answered(outcome) THEN revisions + 1 ELSE revisions

Revision == revisions + 1

\* check_reply blocks some replies; a blocked one counts as a promise.
DraftAnswered ==
    /\ next = "draft" /\ Used("draft")
    /\ \E claims, blocks \in BOOLEAN :
          /\ claims \/ blocks => Answered(outcome)
          /\ draft' = [promises |-> claims \/ blocks, blocked |-> blocks]
    /\ revisions' = Revision
    /\ verified' = FALSE
    /\ next' = "ground_check"
    /\ UNCHANGED <<crisis, grounding, actions>> /\ ElseUnchanged

GroundCheck == next = "ground_check" /\ Idle /\ Asks("ground_check")

\* Mutant: the safe default is taken as it is.
VerdictByDefault(says) ==
    [grounded |-> Answered(outcome) => says, unavailable |-> FALSE]

\* The step's safe default says grounded; a checker that was to run and could
\* not makes it unavailable instead.
Verdict(says) ==
    [grounded |-> ~Degraded(outcome) /\ (Answered(outcome) => says),
     unavailable |-> Degraded(outcome)]

AfterGroundCheck(g) ==
    IF g.grounded \/ g.unavailable \/ revisions >= MaxRevisions THEN "plan" ELSE "draft"

GroundCheckAnswered ==
    /\ next = "ground_check" /\ Used("ground_check")
    /\ \E says \in BOOLEAN :
          /\ grounding' = Verdict(says)
          /\ verified' = (Answered(outcome) /\ says)
          /\ next' = AfterGroundCheck(Verdict(says))
    /\ UNCHANGED <<crisis, draft, revisions, actions>> /\ ElseUnchanged

Plan == next = "plan" /\ Idle /\ Asks("plan")

\* Mutant: only a planner that ran is corrected.
WithTicketIfPlanned(kinds) ==
    IF triage.severity >= TicketMin /\ Answered(outcome) THEN kinds \cup {"ticket"} ELSE kinds

\* A rule that does not depend on the model remembering it.
WithTicket(kinds) ==
    IF triage.severity >= TicketMin THEN kinds \cup {"ticket"} ELSE kinds

\* The rules of a planner that did not run propose by what the ledger has shown.
PlanAnswered ==
    /\ next = "plan" /\ Used("plan")
    /\ \E kinds \in SUBSET {"reversal", "ticket"} : actions' = WithTicket(kinds)
    /\ next' = "review_gate"
    /\ UNCHANGED <<crisis, draft, revisions, grounding, verified>> /\ ElseUnchanged

\* A call in progress.
Waits ==
    /\ Attempt
    /\ UNCHANGED <<online, text, next, nodeVars, cache, traffic, readFrom>>

Step ==
    \/ Triage \/ TriageAnswered \/ SummaryAnswered \/ Judge \/ JudgeAnswered
    \/ Prioritise \/ Draft \/ DraftAnswered \/ GroundCheck \/ GroundCheckAnswered
    \/ Plan \/ PlanAnswered \/ Waits

Next == Step \/ OtherTriage \/ Tick

Spec == Init /\ [][Next]_vars

\* The event loop goes on with the case, and every attempt ends in its timeout.
FairSpec == Spec /\ WF_vars(Step)

-----------------------------------------------------------------------------
(* Properties.                                                              *)

\* The rules of the gate that no track record buys past, but those about the
\* customer's own data.
HardRules ==
    /\ "reversal" \notin actions
    /\ text \notin Injected
    /\ ~crisis
    /\ ~draft.blocked /\ ~draft.promises
    /\ grounding.grounded

MayPostAlone == next = "review_gate" /\ HardRules /\ triage.severity <= AutoMax

TypeOK ==
    /\ CallTypeOK
    /\ online \in BOOLEAN /\ text \in Text /\ next \in Node
    /\ triage \in TriageOf \cup {None} /\ crisis \in BOOLEAN
    /\ draft \in [promises : BOOLEAN, blocked : BOOLEAN] \cup {None}
    /\ revisions \in 0 .. MaxRevisions
    /\ grounding \in [grounded : BOOLEAN, unavailable : BOOLEAN] \cup {None}
    /\ actions \subseteq {"reversal", "ticket"}
    /\ cache \in Seq(Entry) /\ Len(cache) <= MaxEntries
    /\ traffic \in 0 .. MaxTraffic /\ readFrom \in Entry \cup {None}
    /\ verified \in BOOLEAN

\* A reply may go out without a person only if a model has found that very
\* draft grounded, whatever failed on the way: an earlier draft's verdict, a
\* checker that was down and a budget that was used up count for nothing
\* (ground_check_node, _after_ground_check).  A system without a key is a demo
\* and says so.
OnlyVerifiedPosts == MayPostAlone /\ online => verified

\* A comment that names a regulator, the law or fraud reaches the gate as the
\* gravest kind, with a ticket, and is never answered without a person: also
\* when a model or the cache thought less of it, and when the planner was down
\* (triage_node, plan_node).
RegulatoryIsFollowedUp ==
    next = "review_gate" /\ text \in Regulatory =>
        triage.severity = 5 /\ ~MayPostAlone /\ (5 >= TicketMin => "ticket" \in actions)

\* What is kept and what is served from the cache is a model's answer for this
\* company's customers: an outage or another company's reading never comes back
\* as a hit (llm_triage, ResponseCache).
HitsAreAnswers ==
    /\ \A i \in DOMAIN cache : cache[i].by \in Tier
    /\ readFrom # None => readFrom.by \in Tier /\ readFrom.brand = Own

\* The ceiling on a case may be overrun by what one call pays for at most: the
\* attempts of every call, the failed ones too, count towards it (structured,
\* _spent).
PaidWithinOneCall == paid > 0 => paid < Budget + AttemptsPerCall * MaxCharge

\* Whatever the models say, and however often they fail, the case comes to the
\* gate or is dropped (_after_ground_check, structured).
IntakeEnds == <>(next \in {"review_gate", "close"})

\* What caching.py says of its key: an answer is served for the model that gave
\* it, "a different model is a different answer" (caching.py:14-15).
CachedUnderItsModel == \A i \in DOMAIN cache : cache[i].by = TierTriage
================================================================================
