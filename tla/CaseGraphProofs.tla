---------------------------- MODULE CaseGraphProofs ----------------------------
(***************************************************************************)
(* For any number of cases, runs, requests and crashes: that the pipeline  *)
(* keeps its promise about money, that what it says of a case and of its   *)
(* reply is true, that no case is left stranded, and that a reply goes out *)
(* once.  Each of the three has an inductive invariant: MoneyInv, TruthInv *)
(* and HandsInv.                                                           *)
(***************************************************************************)
EXTENDS CaseGraph, TLAPS

(* The inductive invariant about money.                                     *)

\* Every approval a state carries was given by a person, for that case.
Given(c, review) == \A i \in review.approved : Consented(c, i)

ApprovalsGiven ==
    /\ \A c \in Case : Given(c, thread[c].review)
    /\ \A r \in Run : run[r] # Idle =>
          /\ Given(run[r].case, run[r].state.review)
          /\ run[r].resume.kind = "review" => run[r].resume \in sent[run[r].case]

\* What act_node has made sure of before it calls the tool, and what stays so
\* while the call is out.
Cleared(c, i) ==
    LET a == Plan(c)[i]
    IN  a.kind = "reversal" =>
            /\ a.reference \in Reference
            /\ Theirs(c, a.reference)
            /\ a.amount = Txn[a.reference].amount
            /\ Consented(c, i)

CallsCleared ==
    \A r \in Run : AtAction(r) /\ run[r].calling => Cleared(run[r].case, Current(r))

MoneyInv ==
    /\ TypeOK
    /\ ApprovalsGiven
    /\ CallsCleared
    /\ MoneyConsented
    /\ ReversedOnce

-----------------------------------------------------------------------------
(* Type correctness.                                                        *)

LEMMA BusyRun ==
    ASSUME TypeOK, NEW r \in Run, run[r] # Idle
    PROVE  /\ run[r].case \in Case
           /\ run[r] \in Work(run[r].case)
           /\ run[r].state \in CaseState(run[r].case)
BY DEF TypeOK, Work

LEMMA AtIsBusy ==
    ASSUME NEW r \in Run, NEW node, At(r, node)
    PROVE  run[r] # Idle
BY DEF At, Idle

LEMMA WorkingType ==
    ASSUME NEW c \in Case, NEW s \in CaseState(c), NEW p \in Payload(c) \cup {Nothing}
    PROVE  Working(c, s, p) \in Work(c) /\ Working(c, s, p).case = c
BY DEF Working, Work

LEMMA SaveType ==
    ASSUME TypeOK, NEW r \in Run, run[r] # Idle,
           NEW s \in CaseState(run[r].case), Save(r, s)
    PROVE  /\ DOMAIN thread' = Case
           /\ \A c \in Case : thread'[c] \in CaseState(c)
           /\ DOMAIN run' = Run
           /\ \A q \in Run : run'[q] # Idle =>
                 run'[q].case \in Case /\ run'[q] \in Work(run'[q].case)
<1> DEFINE c == run[r].case
           w == Working(c, s, Nothing)
<1>1. c \in Case
  BY BusyRun
<1>2. w \in Work(c) /\ w.case = c
  BY <1>1, WorkingType
<1>3. run' = [run EXCEPT ![r] = IF s.next = "end" THEN Idle ELSE w]
  BY DEF Save
<1> HIDE DEF w
<1>4. thread' = [thread EXCEPT ![c] = s]
  BY DEF Save
<1>5. DOMAIN thread' = Case /\ \A d \in Case : thread'[d] \in CaseState(d)
  BY <1>1, <1>4 DEF TypeOK
<1>6. DOMAIN run' = Run
  BY <1>3 DEF TypeOK
<1>7. \A q \in Run : run'[q] = run[q] \/ run'[q] = Idle \/ (q = r /\ run'[q] = w)
  BY <1>3 DEF TypeOK
<1>8. \A q \in Run : run'[q] # Idle =>
         run'[q].case \in Case /\ run'[q] \in Work(run'[q].case)
  BY <1>1, <1>2, <1>7 DEF TypeOK
<1> QED
  BY <1>5, <1>6, <1>8

\* A step that saves a row and changes nothing else that is typed but the ledger.
LEMMA SavedTypeOK ==
    ASSUME TypeOK, NEW r \in Run, run[r] # Idle,
           NEW s \in CaseState(run[r].case), Save(r, s), UNCHANGED <<ledger, history>>
    PROVE  TypeOK'
BY SaveType DEF TypeOK, ledger, history

\* A step of one run that changes its own record only.
LEMMA RunTypeOK ==
    ASSUME TypeOK, NEW r \in Run, run[r] # Idle,
           NEW w, w = Idle \/ w \in Work(run[r].case),
           run' = [run EXCEPT ![r] = w], UNCHANGED <<thread, sent, submissions>>,
           reversals' \subseteq Reversals,
           tickets' \subseteq Case \X (Reference \cup {None}),
           posts' \in [Case -> Nat], disturbed' \subseteq Case, dropped' \subseteq Case,
           crashes' \in 0 .. MaxCrashes
    PROVE  TypeOK'
<1>1. run[r].case \in Case
  BY BusyRun
<1>2. w # Idle => w.case = run[r].case
  BY DEF Work
<1> QED
  BY <1>1, <1>2 DEF TypeOK

LEMMA OutcomeType ==
    ASSUME TypeOK, NEW r \in Run, run[r] # Idle, NEW status \in Status
    PROVE  Outcome(r, status) \in Work(run[r].case)
<1>1. run[r] \in Work(run[r].case)
  BY BusyRun
<1>2. Append(run[r].results, status) \in Seq(Status)
  BY <1>1 DEF Work
<1> QED
  BY <1>1, <1>2 DEF Outcome, Work

LEMMA MovementType ==
    ASSUME NEW c \in Case, NEW i \in DOMAIN Plan(c), Plan(c)[i].reference \in Reference
    PROVE  Movement(c, Plan(c)[i]) \in Reversals
<1>1. Plan(c)[i] \in Action
  BY CaseAssumption DEF Plan, Finding
<1> QED
  BY <1>1 DEF Action, Movement, Reversals

LEMMA LedgerType ==
    ASSUME TypeOK, NEW c \in Case, NEW i \in DOMAIN Plan(c),
           Plan(c)[i].kind = "reversal" => Plan(c)[i].reference \in Reference,
           Carry(c, Plan(c)[i])
    PROVE  reversals' \subseteq Reversals /\ tickets' \subseteq Case \X (Reference \cup {None})
<1>1. Plan(c)[i] \in Action
  BY CaseAssumption DEF Plan, Finding
<1>2. TicketKey(c, Plan(c)[i]) \in Case \X (Reference \cup {None})
  BY <1>1 DEF Action, TicketKey
<1>3. CASE Plan(c)[i].kind = "ticket"
  BY <1>2, <1>3 DEF Carry, TypeOK
<1>4. CASE Plan(c)[i].kind # "ticket"
  <2>1. Plan(c)[i].kind = "reversal"
    BY <1>1, <1>4 DEF Action
  <2>2. Movement(c, Plan(c)[i]) \in Reversals
    BY <2>1, MovementType
  <2> QED
    BY <2>2, <1>4 DEF Carry, TypeOK
<1> QED
  BY <1>3, <1>4

\* What a step of a run that is under way does to the types.
LEMMA StepTypeOK ==
    ASSUME TypeOK, NEW r \in Run, Step(r), CallsCleared
    PROVE  TypeOK'
<1> DEFINE c == run[r].case
           s == run[r].state
<1>1. CASE ReviewGate(r)
  <2>1. run[r] # Idle
    BY <1>1, AtIsBusy DEF ReviewGate
  <2>2. CASE Stop(r) /\ UNCHANGED thread
    BY <1>1, <2>1, <2>2, RunTypeOK DEF ReviewGate, Stop, ledger, history, TypeOK
  <2>3. ASSUME NEW review \in Review(c),
               Save(r, [s EXCEPT !.review = review,
                                 !.next = IF review.decision = "reject"
                                          THEN "act" ELSE "publish"])
        PROVE  TypeOK'
    <3>1. [s EXCEPT !.review = review,
                    !.next = IF review.decision = "reject"
                             THEN "act" ELSE "publish"] \in CaseState(c)
      BY <2>1, BusyRun DEF CaseState, Node
    <3> QED
      BY <1>1, <2>1, <2>3, <3>1, SavedTypeOK DEF ReviewGate
  <2>4. AutoReview \in Review(c)
    BY DEF AutoReview, Review
  <2>5. Answers(r, "review") => HumanReview(run[r].resume) \in Review(c)
    <3>1. run[r].resume \in Payload(c) \cup {Nothing}
      BY <2>1, BusyRun DEF Work
    <3>2. Answers(r, "review") => run[r].resume \in ReviewPayload(c)
      BY <3>1 DEF Answers, Payload, VoicePayload, Nothing
    <3> QED
      BY <3>2 DEF ReviewPayload, HumanReview, Review
  <2> QED
    BY <1>1, <2>2, <2>3, <2>4, <2>5 DEF ReviewGate
<1>2. CASE Post(r)
  <2>1. run[r] # Idle
    BY <1>2, AtIsBusy DEF Post
  <2>2. PICK receipt \in {"posted", "blocked"}, landed \in BOOLEAN :
          /\ run' = [run EXCEPT ![r].receipt = receipt, ![r].resume = Nothing]
          /\ posts' = [posts EXCEPT ![c] = IF landed THEN @ + 1 ELSE @]
    BY <1>2 DEF Post
  <2> DEFINE w == [run[r] EXCEPT !.receipt = receipt, !.resume = Nothing]
  <2>3. w \in Work(c)
    BY <2>1, BusyRun DEF Work
  <2>4. run' = [run EXCEPT ![r] = w]
    BY <2>2
  <2> HIDE DEF w
  <2>5. posts' \in [Case -> Nat]
    BY <2>1, <2>2, BusyRun DEF TypeOK
  <2> QED
    BY <1>2, <2>1, <2>3, <2>4, <2>5, RunTypeOK DEF Post, ledger, TypeOK
<1>3. CASE PublishEnds(r)
  <2>1. run[r] # Idle
    BY <1>3, AtIsBusy DEF PublishEnds
  <2>2. [s EXCEPT !.published = run[r].receipt, !.next = "act"] \in CaseState(c)
    <3>1. run[r].receipt \in {"no", "posted", "blocked"}
      BY <2>1, BusyRun DEF Work
    <3> QED
      BY <2>1, <3>1, BusyRun DEF CaseState, Node
  <2> QED
    BY <1>3, <2>1, <2>2, SavedTypeOK DEF PublishEnds
<1>4. CASE CheckAction(r)
  <2>1. run[r] # Idle
    BY <1>4, AtIsBusy DEF CheckAction, AtAction
  <2>2. Outcome(r, "not_approved") \in Work(c) /\ Outcome(r, "blocked") \in Work(c)
    BY <2>1, OutcomeType DEF Status
  <2> DEFINE w == [run[r] EXCEPT !.calling = TRUE, !.resume = Nothing]
  <2>3. w \in Work(c)
    BY <2>1, BusyRun DEF Work
  <2>4. \/ run' = [run EXCEPT ![r] = Outcome(r, "not_approved")]
        \/ run' = [run EXCEPT ![r] = Outcome(r, "blocked")]
        \/ run' = [run EXCEPT ![r] = w]
    BY <1>4 DEF CheckAction
  <2> HIDE DEF w
  <2> QED
    BY <1>4, <2>1, <2>2, <2>3, <2>4, RunTypeOK DEF CheckAction, ledger, history, TypeOK
<1>5. CASE CallTool(r)
  <2>1. run[r] # Idle
    BY <1>5, AtIsBusy DEF CallTool, AtAction
  <2>2. PICK status \in Status : run' = [run EXCEPT ![r] = Outcome(r, status)]
    BY <1>5 DEF CallTool, Status
  <2>3. Outcome(r, status) \in Work(c)
    BY <2>1, OutcomeType
  <2>4. Plan(c)[Current(r)].kind = "reversal" => Plan(c)[Current(r)].reference \in Reference
    BY <1>5 DEF CallTool, CallsCleared, Cleared
  <2>5. reversals' \subseteq Reversals /\ tickets' \subseteq Case \X (Reference \cup {None})
    <3>1. c \in Case /\ Current(r) \in DOMAIN Plan(c)
      BY <1>5, <2>1, BusyRun DEF CallTool, AtAction
    <3>2. CASE Carry(c, Plan(c)[Current(r)])
      BY <2>4, <3>1, <3>2, LedgerType
    <3>3. CASE UNCHANGED ledger
      BY <3>3 DEF ledger, TypeOK
    <3> QED
      BY <1>5, <3>2, <3>3 DEF CallTool
  <2> QED
    BY <1>5, <2>1, <2>2, <2>3, <2>5, RunTypeOK DEF CallTool, history, TypeOK
<1>6. CASE ActEnds(r)
  <2>1. run[r] # Idle
    BY <1>6, AtIsBusy DEF ActEnds
  <2>2. [s EXCEPT !.results = run[r].results,
                  !.next = IF s.review.decision = "reject"
                           THEN "close" ELSE "escalation"] \in CaseState(c)
    <3>1. run[r].results \in Seq(Status)
      BY <2>1, BusyRun DEF Work
    <3> QED
      BY <2>1, <3>1, BusyRun DEF CaseState, Node
  <2> QED
    BY <1>6, <2>1, <2>2, SavedTypeOK DEF ActEnds
<1>7. CASE Escalation(r)
  <2>1. run[r] # Idle
    BY <1>7, AtIsBusy DEF Escalation
  <2>2. PICK rule \in Rules :
          Save(r, [s EXCEPT !.callOwed = CallOwed(c, rule),
                            !.next = IF CallOwed(c, rule) THEN "voice" ELSE "close"])
    BY <1>7 DEF Escalation
  <2>3. CallOwed(c, rule) \in BOOLEAN
    BY <2>1, BusyRun, CaseAssumption DEF CallOwed, Finding
  <2>4. [s EXCEPT !.callOwed = CallOwed(c, rule),
                  !.next = IF CallOwed(c, rule) THEN "voice" ELSE "close"] \in CaseState(c)
    BY <2>1, <2>3, BusyRun DEF CaseState, Node
  <2> QED
    BY <1>7, <2>1, <2>2, <2>4, SavedTypeOK DEF Escalation
<1>8. CASE VoiceCall(r)
  <2>1. run[r] # Idle
    BY <1>8, AtIsBusy DEF VoiceCall
  <2>2. CASE Stop(r) /\ UNCHANGED thread
    BY <1>8, <2>1, <2>2, RunTypeOK DEF VoiceCall, Stop, ledger, history, TypeOK
  <2>3. ASSUME NEW voice \in Call, Save(r, [s EXCEPT !.voice = voice, !.next = "close"])
        PROVE  TypeOK'
    <3>1. [s EXCEPT !.voice = voice, !.next = "close"] \in CaseState(c)
      BY <2>1, BusyRun DEF CaseState, Node
    <3> QED
      BY <1>8, <2>1, <2>3, <3>1, SavedTypeOK DEF VoiceCall
  <2>4. Answers(r, "voice") => run[r].resume.call \in Call
    <3>1. run[r].resume \in Payload(c) \cup {Nothing}
      BY <2>1, BusyRun DEF Work
    <3> QED
      BY <3>1 DEF Answers, Payload, ReviewPayload, VoicePayload, Nothing
  <2>5. "none" \in Call
    BY DEF Call
  <2> QED
    BY <1>8, <2>2, <2>3, <2>4, <2>5 DEF VoiceCall
<1>9. CASE Close(r)
  <2>1. run[r] # Idle
    BY <1>9, AtIsBusy DEF Close
  <2>2. [s EXCEPT !.closure = IF Resolved(s) THEN "resolved" ELSE "unresolved",
                  !.next = "end"] \in CaseState(c)
    BY <2>1, BusyRun DEF CaseState
  <2> QED
    BY <1>9, <2>1, <2>2, SavedTypeOK DEF Close
<1> QED
  BY <1>1, <1>2, <1>3, <1>4, <1>5, <1>6, <1>7, <1>8, <1>9 DEF Step

LEMMA TypeStep ==
    ASSUME TypeOK, CallsCleared, [Next]_vars
    PROVE  TypeOK'
<1>1. ASSUME NEW r \in Run, Step(r) PROVE TypeOK'
  BY <1>1, StepTypeOK
<1>2. ASSUME NEW r \in Run, NEW c \in Case, Begin(r, c) PROVE TypeOK'
  <2> DEFINE s == [thread[c] EXCEPT !.next = "review_gate"]
             w == Working(c, s, Nothing)
  <2>1. s \in CaseState(c)
    <3>1. thread[c] \in CaseState(c)
      BY DEF TypeOK
    <3> QED
      BY <3>1 DEF CaseState, Node
  <2>2. w \in Work(c) /\ w.case = c
    BY <2>1, WorkingType
  <2>3. thread' = [thread EXCEPT ![c] = s] /\ run' = [run EXCEPT ![r] = w]
    BY <1>2 DEF Begin
  <2> HIDE DEF w, s
  <2> QED
    BY <1>2, <2>1, <2>2, <2>3 DEF Begin, TypeOK, ledger, history
<1>3. ASSUME NEW r \in Run, NEW c \in Case, NEW p \in Payload(c), Resume(r, c, p)
      PROVE  TypeOK'
  <2> DEFINE w == Working(c, thread[c], p)
  <2>1. w \in Work(c) /\ w.case = c
    BY WorkingType DEF TypeOK
  <2>2. run' = [run EXCEPT ![r] = w]
    BY <1>3 DEF Resume, Loaded
  <2> HIDE DEF w
  <2>3. submissions' \in [Case -> 0 .. MaxSubmissions]
    BY <1>3, CaseAssumption DEF Resume, TypeOK
  <2> QED
    BY <1>3, <2>1, <2>2, <2>3 DEF Resume, TypeOK, ledger
<1>4. ASSUME Crash PROVE TypeOK'
  <2>1. crashes' \in 0 .. MaxCrashes
    BY <1>4, CaseAssumption DEF Crash, TypeOK
  <2>2. InProgress \subseteq Case
    BY DEF InProgress
  <2> QED
    BY <1>4, <2>1, <2>2 DEF Crash, TypeOK, ledger
<1>5. ASSUME UNCHANGED vars PROVE TypeOK'
  BY <1>5 DEF vars, ledger, history, TypeOK
<1> QED
  BY <1>1, <1>2, <1>3, <1>4, <1>5 DEF Next

-----------------------------------------------------------------------------
(* Money.                                                                   *)

\* What people have said is never unsaid.
Heard == \A c \in Case : sent[c] \subseteq sent'[c]

\* Consented, in the next state, for a case and an action of this one.
ConsentedThen(c, i) == \E p \in sent'[c] : p.kind = "review" /\ i \in p.approved

GivenThen(c, review) == \A i \in review.approved : ConsentedThen(c, i)

LEMMA ConsentLasts ==
    ASSUME Heard, NEW c \in Case
    PROVE  /\ \A i : Consented(c, i) => ConsentedThen(c, i)
           /\ \A review : Given(c, review) => GivenThen(c, review)
BY DEF Heard, Consented, ConsentedThen, Given, GivenThen

LEMMA StillConsented ==
    ASSUME Heard, MoneyConsented, reversals' = reversals
    PROVE  MoneyConsented'
<1>1. \A p \in Consents : p \in Consents'
  BY ConsentLasts DEF Consents, AgreedTo, Consented, ConsentedThen
<1> QED
  BY <1>1 DEF MoneyConsented, Owed, Theirs

\* A run that a step leaves alone, ends, or leaves with no call out and with
\* approvals that were given.
Harmless(r) ==
    \/ run'[r] = run[r]
    \/ run'[r] = Idle
    \/ /\ run'[r].case \in Case
       /\ run'[r].calling => run'[r].state.next # "act"
       /\ GivenThen(run'[r].case, run'[r].state.review)
       /\ run'[r].resume.kind = "review" => run'[r].resume \in sent'[run'[r].case]

LEMMA HarmlessApprovals ==
    ASSUME TypeOK, ApprovalsGiven, Heard, \A r \in Run : Harmless(r),
           \A c \in Case : thread'[c] = thread[c] \/ GivenThen(c, thread'[c].review)
    PROVE  ApprovalsGiven'
<1>1. \A c \in Case : GivenThen(c, thread'[c].review)
  BY ConsentLasts DEF ApprovalsGiven
<1>2. ASSUME NEW r \in Run, run'[r] # Idle
      PROVE  /\ GivenThen(run'[r].case, run'[r].state.review)
             /\ run'[r].resume.kind = "review" => run'[r].resume \in sent'[run'[r].case]
  <2>1. CASE run'[r] = run[r]
    <3>1. run[r].case \in Case /\ Given(run[r].case, run[r].state.review)
      BY <1>2, <2>1, BusyRun DEF ApprovalsGiven
    <3>2. GivenThen(run[r].case, run[r].state.review)
      BY <3>1, ConsentLasts
    <3>3. run[r].resume.kind = "review" => run[r].resume \in sent[run[r].case]
      BY <1>2, <2>1 DEF ApprovalsGiven
    <3> QED
      BY <2>1, <3>1, <3>2, <3>3 DEF Heard
  <2> QED
    BY <1>2, <2>1 DEF Harmless
<1>3. Idle' = Idle
  BY DEF Idle
<1> QED
  BY <1>1, <1>2, <1>3 DEF ApprovalsGiven, Given, GivenThen, Consented, ConsentedThen

LEMMA HarmlessCalls ==
    ASSUME TypeOK, CallsCleared, Heard, \A r \in Run : Harmless(r)
    PROVE  CallsCleared'
<1> SUFFICES ASSUME NEW r \in Run, AtAction(r)', run'[r].calling
             PROVE  Cleared(run[r].case, Current(r))'
  BY DEF CallsCleared
<1>1. run'[r] # Idle
  BY DEF AtAction, At, Idle
<1>2. run'[r] = run[r]
  BY <1>1 DEF Harmless, AtAction, At
<1>3. AtAction(r) /\ Current(r) = Current(r)' /\ run[r].case = run'[r].case
  BY <1>2 DEF AtAction, At, Current, Plan
<1>4. PICK c \in Case, i \in Nat : c = run[r].case /\ i = Current(r)
  BY <1>1, <1>2, BusyRun DEF Current, Work
<1>5. Cleared(c, i)
  BY <1>2, <1>3, <1>4 DEF CallsCleared
<1>6. Cleared(c, i)'
  BY <1>5, ConsentLasts DEF Cleared, Theirs, Plan, Consented, ConsentedThen
<1>7. c = run'[r].case /\ i = Current(r)'
  BY <1>2, <1>3, <1>4
<1> QED
  BY <1>6, <1>7

ThreadsGiven == \A c \in Case : thread'[c] = thread[c] \/ GivenThen(c, thread'[c].review)

\* A step that leaves the ledger's reversals and all that is harmless alone.
LEMMA QuietStep ==
    ASSUME MoneyInv, TypeOK', Heard, \A r \in Run : Harmless(r), ThreadsGiven,
           reversals' = reversals
    PROVE  MoneyInv'
<1>1. ApprovalsGiven' /\ CallsCleared' /\ MoneyConsented'
  BY HarmlessApprovals, HarmlessCalls, StillConsented DEF MoneyInv, ThreadsGiven
<1> QED
  BY <1>1 DEF MoneyInv, ReversedOnce

LEMMA SaveQuiet ==
    ASSUME MoneyInv, TypeOK', NEW r \in Run, run[r] # Idle, NEW s, Save(r, s),
           Given(run[r].case, s.review), UNCHANGED <<reversals, history>>
    PROVE  MoneyInv'
<1> DEFINE c == run[r].case
<1>1. c \in Case /\ DOMAIN run = Run /\ DOMAIN thread = Case
  BY BusyRun DEF MoneyInv, TypeOK
<1>2. Heard
  BY DEF Heard, history
<1>3. GivenThen(c, s.review)
  BY <1>1, <1>2, ConsentLasts
<1>4. ThreadsGiven
  BY <1>1, <1>3 DEF Save, ThreadsGiven
<1>5. \A q \in Run : Harmless(q)
  BY <1>1, <1>3 DEF Save, Harmless, Working, Nothing
<1> QED
  BY <1>2, <1>4, <1>5, QuietStep

\* A step that makes the one movement m, and may.
Moves(m) ==
    /\ <<m.case, m.reference>> \in Consents
    /\ \A n \in reversals : n.reference # m.reference
    /\ reversals' = reversals \cup {m}
    /\ UNCHANGED sent

LEMMA ToolMoves ==
    ASSUME MoneyInv, NEW r \in Run, CallTool(r), reversals' # reversals
    PROVE  \E m \in Owed : Moves(m)
<1> DEFINE c == run[r].case
           i == Current(r)
           a == Plan(c)[i]
<1>1. /\ a.kind # "ticket"
      /\ ~(a.kind = "reversal" /\ Conflict(c, a))
      /\ ~SameKey(c, a)
      /\ reversals' = reversals \cup {Movement(c, a)}
      /\ i \in DOMAIN Plan(c) /\ run[r].calling /\ AtAction(r)
      /\ UNCHANGED sent
  BY DEF CallTool, Carry, ledger, history, AtAction
<1>2. c \in Case
  BY <1>1, AtIsBusy, BusyRun DEF AtAction, MoneyInv
<1>3. a.kind = "reversal"
  <2>1. a \in Action
    BY <1>1, <1>2, CaseAssumption DEF Plan, Finding
  <2> QED
    BY <1>1, <2>1 DEF Action
<1>4. \A m \in reversals : m.reference # a.reference
  BY <1>1, <1>3 DEF Conflict
<1>5. /\ a.reference \in Reference /\ Theirs(c, a.reference)
      /\ a.amount = Txn[a.reference].amount /\ Consented(c, i)
  BY <1>1, <1>3 DEF MoneyInv, CallsCleared, Cleared
<1>6. Movement(c, a) \in Owed
  <2> DEFINE p == <<c, a.reference>>
  <2>1. p \in {q \in Case \X Reference : Theirs(q[1], q[2])}
    BY <1>2, <1>5
  <2>2. Movement(c, a) = [case |-> p[1], reference |-> p[2], amount |-> Txn[p[2]].amount]
    BY <1>5 DEF Movement
  <2> QED
    BY <2>1, <2>2 DEF Owed
<1>7. <<c, a.reference>> \in Consents
  BY <1>1, <1>2, <1>3, <1>5 DEF Consents, AgreedTo
<1>8. Movement(c, a).case = c /\ Movement(c, a).reference = a.reference
  BY DEF Movement
<1> QED
  BY <1>1, <1>4, <1>6, <1>7, <1>8 DEF Moves

LEMMA MoneyStepOfRun ==
    ASSUME MoneyInv, TypeOK', NEW r \in Run, Step(r)
    PROVE  MoneyInv'
<1> DEFINE c == run[r].case
           s == run[r].state
<1>10. TypeOK /\ DOMAIN run = Run /\ run[r] # Idle
  BY AtIsBusy DEF MoneyInv, TypeOK, Step, ReviewGate, Post, PublishEnds, CheckAction,
     CallTool, AtAction, ActEnds, Escalation, VoiceCall, Close
<1>11. c \in Case /\ Given(c, s.review) /\ s \in CaseState(c)
  BY <1>10, BusyRun DEF MoneyInv, ApprovalsGiven
<1>12. ASSUME NEW t, Save(r, t), t.review = s.review, UNCHANGED <<ledger, history>>
      PROVE  MoneyInv'
  BY <1>10, <1>11, <1>12, SaveQuiet DEF ledger
<1>13. ASSUME Stop(r), UNCHANGED thread, UNCHANGED <<ledger, history>>
      PROVE  MoneyInv'
  <2>1. \A q \in Run : Harmless(q)
    BY <1>10, <1>13 DEF Stop, Harmless
  <2> QED
    BY <1>13, <2>1, QuietStep DEF ThreadsGiven, Heard, history, ledger
<1>1. CASE ReviewGate(r)
  <2>1. CASE Stop(r) /\ UNCHANGED thread
    BY <1>1, <1>13, <2>1 DEF ReviewGate
  <2>2. ASSUME NEW review, Given(c, review),
               Save(r, [s EXCEPT !.review = review,
                                 !.next = IF review.decision = "reject"
                                          THEN "act" ELSE "publish"])
        PROVE  MoneyInv'
    <3>1. [s EXCEPT !.review = review,
                    !.next = IF review.decision = "reject"
                             THEN "act" ELSE "publish"].review = review
      BY <1>11 DEF CaseState
    <3> QED
      BY <1>10, <1>1, <2>2, <3>1, SaveQuiet DEF ReviewGate, ledger
  <2>3. Given(c, AutoReview)
    BY DEF Given, AutoReview
  <2>4. Answers(r, "review") => Given(c, HumanReview(run[r].resume))
    BY <1>10 DEF Answers, MoneyInv, ApprovalsGiven, Given, HumanReview, Consented
  <2> QED
    BY <1>1, <2>1, <2>2, <2>3, <2>4 DEF ReviewGate
<1>2. CASE Post(r)
  <2>1. \A q \in Run : q # r => run'[q] = run[q]
    BY <1>10, <1>2 DEF Post
  <2>2. run'[r].case = c /\ run'[r].state = s /\ run'[r].resume = Nothing
    <3>1. run[r] \in Work(c)
      BY <1>10, BusyRun
    <3>2. PICK receipt \in {"posted", "blocked"} :
            run' = [run EXCEPT ![r].receipt = receipt, ![r].resume = Nothing]
      BY <1>2 DEF Post
    <3> QED
      BY <1>10, <3>1, <3>2 DEF Work
  <2>3. Heard
    BY <1>2 DEF Post, Heard
  <2>4. GivenThen(c, s.review)
    BY <1>11, <2>3, ConsentLasts
  <2>5. s.next # "act"
    BY <1>2 DEF Post, At
  <2>6. \A q \in Run : Harmless(q)
    BY <1>11, <2>1, <2>2, <2>4, <2>5 DEF Harmless, Nothing
  <2> QED
    BY <1>2, <2>3, <2>6, QuietStep DEF Post, ThreadsGiven, ledger
<1>3. CASE PublishEnds(r)
  <2>1. [s EXCEPT !.published = run[r].receipt, !.next = "act"].review = s.review
    BY <1>11 DEF CaseState
  <2> QED
    BY <1>3, <1>12, <2>1 DEF PublishEnds
<1>14. ASSUME NEW status, run' = [run EXCEPT ![r] = Outcome(r, status)], UNCHANGED sent
       PROVE  Heard /\ \A q \in Run : Harmless(q)
  <2>1. Heard
    BY <1>14 DEF Heard
  <2>2. GivenThen(c, s.review)
    BY <1>11, <2>1, ConsentLasts
  <2>3. /\ Outcome(r, status).case = c /\ Outcome(r, status).state = s
        /\ Outcome(r, status).calling = FALSE /\ Outcome(r, status).resume = Nothing
    <3>1. run[r] \in Work(c)
      BY <1>10, BusyRun
    <3> QED
      BY <3>1 DEF Outcome, Work
  <2> QED
    BY <1>10, <1>11, <1>14, <2>1, <2>2, <2>3 DEF Harmless, Nothing
<1>4. CASE CheckAction(r)
  <2>1. ASSUME NEW status, run' = [run EXCEPT ![r] = Outcome(r, status)]
        PROVE  MoneyInv'
    BY <1>4, <1>14, <2>1, QuietStep DEF CheckAction, ThreadsGiven, ledger, history
  <2>2. ASSUME run' = [run EXCEPT ![r].calling = TRUE, ![r].resume = Nothing],
               Cleared(c, Current(r))
        PROVE  MoneyInv'
    <3>1. \A q \in Run : q # r => run'[q] = run[q]
      BY <1>10, <2>2
    <3>2. /\ run'[r].case = c /\ run'[r].state = s /\ run'[r].resume = Nothing
          /\ run'[r].results = run[r].results
      <4>1. run[r] \in Work(c)
        BY <1>10, BusyRun
      <4> QED
        BY <1>10, <2>2, <4>1 DEF Work
    <3>3. UNCHANGED <<thread, sent, reversals>>
      BY <1>4 DEF CheckAction, ledger, history
    <3>4. ApprovalsGiven'
      <4>1. \A q \in Run : run'[q] # Idle => run[q] # Idle
        BY <1>10, <3>1
      <4> QED
        BY <1>10, <3>1, <3>2, <3>3, <4>1
           DEF MoneyInv, ApprovalsGiven, Given, Consented, Nothing, Idle
    <3>5. CallsCleared'
      <4>1. SUFFICES ASSUME NEW q \in Run, AtAction(q)', run'[q].calling
                     PROVE  Cleared(run[q].case, Current(q))'
        BY DEF CallsCleared
      <4>2. /\ run'[q].case = run[q].case /\ run'[q].state = run[q].state
            /\ run'[q].results = run[q].results
        BY <3>1, <3>2
      <4>3. AtAction(q)
        BY <4>1, <4>2 DEF AtAction, At, Current, Plan
      <4>4. q # r => Cleared(run[q].case, Current(q))
        BY <3>1, <4>1, <4>3 DEF MoneyInv, CallsCleared
      <4>5. Cleared(run[q].case, Current(q))
        BY <2>2, <4>4
      <4> QED
        BY <3>3, <4>2, <4>5 DEF Cleared, Current, Theirs, Plan, Consented
    <3> QED
      BY <3>3, <3>4, <3>5 DEF MoneyInv, MoneyConsented, ReversedOnce, Owed, Theirs,
         Consents, AgreedTo, Consented
  <2>3. ASSUME NEW rule,
               Plan(c)[Current(r)].kind = "reversal" =>
                   Approved(r, Current(r)) /\ Valid(c, Plan(c)[Current(r)], rule)
        PROVE  Cleared(c, Current(r))
    BY <1>11, <2>3 DEF Cleared, Approved, Valid, Theirs, Given
  <2> QED
    BY <1>4, <2>1, <2>2, <2>3 DEF CheckAction
<1>5. CASE CallTool(r)
  <2>1. PICK status \in Status : run' = [run EXCEPT ![r] = Outcome(r, status)]
    BY <1>5 DEF CallTool, Status
  <2>2. UNCHANGED <<thread, sent>>
    BY <1>5 DEF CallTool, history
  <2>3. Heard /\ \A q \in Run : Harmless(q)
    BY <1>14, <2>1, <2>2
  <2>4. CASE reversals' = reversals
    BY <2>2, <2>3, <2>4, QuietStep DEF ThreadsGiven
  <2>5. CASE reversals' # reversals
    <3>1. PICK m \in Owed : Moves(m)
      BY <1>5, <2>5, ToolMoves
    <3>2. MoneyConsented'
      <4>1. \A n \in reversals' : n \in Owed /\ <<n.case, n.reference>> \in Consents
        BY <3>1 DEF Moves, MoneyInv, MoneyConsented
      <4> QED
        BY <2>2, <4>1 DEF MoneyConsented, Owed, Theirs, Consents, AgreedTo, Consented
    <3>3. ReversedOnce'
      BY <3>1 DEF Moves, MoneyInv, ReversedOnce
    <3>4. ApprovalsGiven' /\ CallsCleared'
      BY <2>2, <2>3, HarmlessApprovals, HarmlessCalls DEF MoneyInv
    <3> QED
      BY <3>2, <3>3, <3>4 DEF MoneyInv
  <2> QED
    BY <2>4, <2>5
<1>6. CASE ActEnds(r)
  <2>1. [s EXCEPT !.results = run[r].results,
                  !.next = IF s.review.decision = "reject"
                           THEN "close" ELSE "escalation"].review = s.review
    BY <1>11 DEF CaseState
  <2> QED
    BY <1>6, <1>12, <2>1 DEF ActEnds
<1>7. CASE Escalation(r)
  <2>1. ASSUME NEW owed, NEW next
        PROVE  [s EXCEPT !.callOwed = owed, !.next = next].review = s.review
    BY <1>11 DEF CaseState
  <2> QED
    BY <1>7, <1>12, <2>1 DEF Escalation
<1>8. CASE VoiceCall(r)
  <2>1. ASSUME NEW voice
        PROVE  [s EXCEPT !.voice = voice, !.next = "close"].review = s.review
    BY <1>11 DEF CaseState
  <2>2. \/ Stop(r) /\ UNCHANGED thread
        \/ \E voice : Save(r, [s EXCEPT !.voice = voice, !.next = "close"])
    BY <1>8 DEF VoiceCall
  <2>3. UNCHANGED <<ledger, history>>
    BY <1>8 DEF VoiceCall
  <2> QED
    BY <1>12, <1>13, <2>1, <2>2, <2>3 DEF ledger, history
<1>9. CASE Close(r)
  <2> DEFINE t == [s EXCEPT !.closure = IF Resolved(s) THEN "resolved" ELSE "unresolved",
                            !.next = "end"]
  <2>1. t.review = s.review
    BY <1>11 DEF CaseState
  <2>2. Save(r, t) /\ UNCHANGED <<ledger, history>>
    BY <1>9 DEF Close
  <2> HIDE DEF t
  <2> QED
    BY <1>12, <2>1, <2>2
<1> QED
  BY <1>1, <1>2, <1>3, <1>4, <1>5, <1>6, <1>7, <1>8, <1>9 DEF Step

LEMMA MoneyStep ==
    ASSUME MoneyInv, [Next]_vars
    PROVE  MoneyInv'
<1>0. TypeOK'
  BY TypeStep DEF MoneyInv
<1>1. ASSUME NEW r \in Run, Step(r) PROVE MoneyInv'
  BY <1>0, <1>1, MoneyStepOfRun
<1>2. ASSUME NEW r \in Run, NEW c \in Case, Begin(r, c) PROVE MoneyInv'
  <2>1. Heard /\ reversals' = reversals
    BY <1>2 DEF Begin, Heard, ledger, history
  <2>2. DOMAIN run = Run /\ DOMAIN thread = Case /\ thread[c] \in CaseState(c)
    BY DEF MoneyInv, TypeOK
  <2>3. GivenThen(c, thread[c].review)
    BY <2>1, ConsentLasts DEF MoneyInv, ApprovalsGiven
  <2> DEFINE s == [thread[c] EXCEPT !.next = "review_gate"]
  <2>4. s.review = thread[c].review
    BY <2>2 DEF CaseState
  <2>5. thread' = [thread EXCEPT ![c] = s] /\ run' = [run EXCEPT ![r] = Working(c, s, Nothing)]
    BY <1>2 DEF Begin
  <2> HIDE DEF s
  <2>6. ThreadsGiven
    BY <2>2, <2>3, <2>4, <2>5 DEF ThreadsGiven
  <2>7. \A q \in Run : Harmless(q)
    BY <2>2, <2>3, <2>4, <2>5 DEF Harmless, Working, Nothing
  <2> QED
    BY <1>0, <2>1, <2>6, <2>7, QuietStep
<1>3. ASSUME NEW r \in Run, NEW c \in Case, NEW p \in Payload(c), Resume(r, c, p)
      PROVE  MoneyInv'
  <2>1. Heard /\ UNCHANGED <<reversals, thread>> /\ p \in sent'[c]
    BY <1>3 DEF Resume, Heard, ledger, MoneyInv, TypeOK
  <2>2. GivenThen(c, thread[c].review)
    BY <2>1, ConsentLasts DEF MoneyInv, ApprovalsGiven
  <2>3. \A q \in Run : Harmless(q)
    BY <1>3, <2>1, <2>2 DEF Resume, Loaded, Working, Harmless, MoneyInv, TypeOK
  <2> QED
    BY <1>0, <2>1, <2>3, QuietStep DEF ThreadsGiven
<1>4. ASSUME Crash PROVE MoneyInv'
  <2>1. Heard /\ UNCHANGED <<reversals, thread>>
    BY <1>4 DEF Crash, Heard, ledger
  <2>2. \A q \in Run : Harmless(q)
    BY <1>4 DEF Crash, Harmless
  <2> QED
    BY <1>0, <2>1, <2>2, QuietStep DEF ThreadsGiven
<1>5. ASSUME UNCHANGED vars PROVE MoneyInv'
  <2>1. Heard /\ UNCHANGED <<reversals, thread, run>>
    BY <1>5 DEF vars, Heard, ledger, history
  <2> QED
    BY <1>0, <2>1, QuietStep DEF ThreadsGiven, Harmless
<1> QED
  BY <1>1, <1>2, <1>3, <1>4, <1>5 DEF Next

LEMMA MoneyInit == Init => MoneyInv
<1> SUFFICES ASSUME Init PROVE MoneyInv
  OBVIOUS
<1>1. TypeOK
  <2>1. \A c \in Case : NewCase \in CaseState(c)
    BY DEF NewCase, CaseState, Node, NoReview, Review, Call
  <2> QED
    BY <2>1, CaseAssumption DEF Init, TypeOK
<1>2. ApprovalsGiven
  BY DEF Init, ApprovalsGiven, Given, NewCase, NoReview
<1>3. CallsCleared
  BY CaseAssumption DEF Init, CallsCleared, AtAction, At, Idle
<1> QED
  BY <1>1, <1>2, <1>3 DEF Init, MoneyInv, MoneyConsented, ReversedOnce

LEMMA MoneyInvariant == Spec => []MoneyInv
<1>1. MoneyInv /\ [Next]_vars => MoneyInv'
  BY MoneyStep
<1> QED
  BY MoneyInit, <1>1, PTL DEF Spec

\* The state of every case, run and ledger has the type its declarations say.
THEOREM TypeCorrect == Spec => []TypeOK
<1>1. MoneyInv => TypeOK
  BY DEF MoneyInv
<1> QED
  BY MoneyInvariant, <1>1, PTL

\* However many cases, runs, requests and crashes there are: money moves only
\* for the debit of the case's own, verified author, and only if a person has
\* approved that reversal for that case (act_node, validate_action).
THEOREM MoneyMovesByConsent == Spec => []MoneyConsented
<1>1. MoneyInv => MoneyConsented
  BY DEF MoneyInv
<1> QED
  BY MoneyInvariant, <1>1, PTL

\* A debit is reversed at most once, by retries, double clicks, resumed graphs
\* and other cases together (tool_args, MockBackend.reverse).
THEOREM DebitsReversedOnce == Spec => []ReversedOnce
<1>1. MoneyInv => ReversedOnce
  BY DEF MoneyInv
<1> QED
  BY MoneyInvariant, <1>1, PTL

-----------------------------------------------------------------------------
(* The refinement.                                                          *)

LEMMA OnlyToolsMove ==
    ASSUME MoneyInv, [Next]_vars
    PROVE  Heard /\ (reversals' = reversals \/ \E m \in Owed : Moves(m))
<1>1. ASSUME NEW r \in Run, CallTool(r)
      PROVE  Heard /\ (reversals' = reversals \/ \E m \in Owed : Moves(m))
  BY <1>1, ToolMoves DEF CallTool, Heard, history
<1>2. ASSUME NEW r \in Run, Step(r), ~CallTool(r)
      PROVE  Heard /\ reversals' = reversals
  BY <1>2 DEF Step, ReviewGate, Post, PublishEnds, CheckAction, ActEnds, Escalation,
     VoiceCall, Close, ledger, history, Heard
<1>3. ASSUME NEW r \in Run, NEW c \in Case, Begin(r, c)
      PROVE  Heard /\ reversals' = reversals
  BY <1>3 DEF Begin, ledger, history, Heard
<1>4. ASSUME NEW r \in Run, NEW c \in Case, NEW p \in Payload(c), Resume(r, c, p)
      PROVE  Heard /\ reversals' = reversals
  BY <1>4 DEF Resume, ledger, Heard, MoneyInv, TypeOK
<1>5. ASSUME Crash PROVE Heard /\ reversals' = reversals
  BY <1>5 DEF Crash, ledger, Heard
<1>6. ASSUME UNCHANGED vars PROVE Heard /\ reversals' = reversals
  BY <1>6 DEF vars, ledger, history, Heard
<1> QED
  BY <1>1, <1>2, <1>3, <1>4, <1>5, <1>6 DEF Next

\* Every step of the pipeline is one that MoneyPromise allows, or none.
THEOREM PipelineKeepsPromise == Spec => KeepsMoneyPromise
<1>1. Init => Promise!Init
  BY DEF Init, Promise!Init, Consents, AgreedTo, Consented
<1>2. MoneyInv /\ [Next]_vars => [Promise!Next]_(Promise!vars)
  <2> SUFFICES ASSUME MoneyInv, [Next]_vars
               PROVE  Promise!Next
    BY DEF Promise!vars
  <2>1. Heard
    BY OnlyToolsMove
  <2>2. Consents \subseteq Consents'
    BY <2>1, ConsentLasts DEF Consents, AgreedTo, Consented, ConsentedThen
  <2>3. CASE reversals' = reversals
    BY <2>2, <2>3 DEF Promise!Next, Promise!Consent
  <2>4. ASSUME NEW m \in Owed, Moves(m)
        PROVE  Promise!Move(m)
    BY <2>4 DEF Moves, Promise!Move, Consents, AgreedTo, Consented
  <2> QED
    BY <2>3, <2>4, OnlyToolsMove DEF Promise!Next
<1> QED
  BY <1>1, <1>2, MoneyInvariant, PTL DEF Spec, KeepsMoneyPromise, Promise!Spec

-----------------------------------------------------------------------------
(* What is true of a case, whoever works on it.                             *)

\* The reply of c may become public: a person approved it, or none is needed.
MayGoOut(c) ==
    HardRulesPass(c) \/ \E p \in sent[c] : p.kind = "review" /\ p.decision = "approve"

\* The call of c was reported to have ended so.
Reported(c, voice) == \E p \in sent[c] : p.kind = "voice" /\ p.call = voice

\* What is said to be executed has reached the ledger.
Done(c, results) ==
    \A i \in DOMAIN results : results[i] = "executed" => i \in DOMAIN Plan(c) /\ Reached(c, i)

AllReached(c) == \A i \in DOMAIN Plan(c) : Reached(c, i)

AfterAct == {"escalation", "voice", "close", "end"}

\* What a row, or a run's copy of it, says of the case holds of the case.
StateTrue(c, s) ==
    /\ s.next = "publish" => MayGoOut(c)
    /\ s.voice # "none" => Reported(c, s.voice)
    /\ s.published = "posted" => posts[c] > 0
    /\ Done(c, s.results)
    /\ s.next \in AfterAct => Len(s.results) = Len(Plan(c))
    /\ s.closure = "resolved" =>
          /\ s.next = "end"
          /\ \/ Reported(c, "resolved")
             \/ /\ posts[c] > 0 /\ AllReached(c)
                /\ s.callOwed => \E p \in sent[c] : p.kind = "voice" /\ p.call # "none"

\* And so does what the local variables of its nodes say.
WorkTrue(c, w) ==
    /\ w.case = c
    /\ w.state.next \notin {"start", "end"}
    /\ StateTrue(c, w.state)
    /\ w.resume # Nothing => w.resume \in sent[c]
    /\ w.receipt = "posted" => posts[c] > 0
    /\ Done(c, w.results)
    /\ Len(w.results) <= Len(Plan(c))

TruthInv ==
    /\ \A c \in Case : StateTrue(c, thread[c])
    /\ \A r \in Run : run[r] # Idle => WorkTrue(run[r].case, run[r])
    /\ \A c \in Case : posts[c] > 0 => MayGoOut(c)

\* A case that no two runs shared and no crash hit is in the hands of one run at
\* most, which has its row; and its reply is out only once it has been posted.
Unshared(c) ==
    /\ \A q, r \in Runs(c) : q = r
    /\ \A r \in Runs(c) : run[r].state = thread[c]
    /\ posts[c] <= 1
    /\ posts[c] > 0 =>
          /\ thread[c].next \notin {"start", "review_gate"}
          /\ thread[c].next = "publish" => \E r \in Runs(c) : run[r].receipt # "no"

OnceInv == \A c \in Case \ disturbed : Unshared(c)

-----------------------------------------------------------------------------
(* What is true of a case stays true.                                       *)

\* What people said, what went out and what the ledger has is never taken back.
Grows ==
    /\ \A c \in Case : sent[c] \subseteq sent'[c] /\ posts[c] <= posts'[c]
    /\ tickets \subseteq tickets' /\ reversals \subseteq reversals'

LEMMA ReachedLasts ==
    ASSUME Grows, NEW c \in Case, NEW i, Reached(c, i)
    PROVE  Reached(c, i)'
BY DEF Grows, Reached, SameKey, TicketKey, Plan

LEMMA StateLasts ==
    ASSUME TypeOK, TypeOK', Grows, NEW c \in Case, NEW s, StateTrue(c, s)
    PROVE  StateTrue(c, s)'
<1>1. posts[c] \in Nat /\ posts'[c] \in Nat /\ posts[c] <= posts'[c]
  BY DEF TypeOK, Grows
<1>2. MayGoOut(c) => MayGoOut(c)'
  BY DEF Grows, MayGoOut, HardRulesPass, MoneyActions, Plan
<1>3. \A voice : Reported(c, voice) => Reported(c, voice)'
  BY DEF Grows, Reported
<1>4. \A i : Reached(c, i) => Reached(c, i)'
  BY ReachedLasts
<1>5. Done(c, s.results) => Done(c, s.results)'
  BY <1>4 DEF Done, Plan
<1>6. AllReached(c) => AllReached(c)'
  BY <1>4 DEF AllReached, Plan
<1>7. (\E p \in sent[c] : p.kind = "voice" /\ p.call # "none") =>
          \E p \in sent'[c] : p.kind = "voice" /\ p.call # "none"
  BY DEF Grows
<1> QED
  BY <1>1, <1>2, <1>3, <1>5, <1>6, <1>7 DEF StateTrue, Plan

LEMMA WorkLasts ==
    ASSUME TypeOK, TypeOK', Grows, NEW c \in Case, NEW w, WorkTrue(c, w)
    PROVE  WorkTrue(c, w)'
<1>1. StateTrue(c, w.state)'
  <2>1. PICK s : s = w.state
    OBVIOUS
  <2> QED
    BY <2>1, StateLasts DEF WorkTrue
<1>2. Done(c, w.results)'
  BY ReachedLasts DEF WorkTrue, Done, Plan
<1>3. posts[c] \in Nat /\ posts'[c] \in Nat /\ posts[c] <= posts'[c]
  BY DEF TypeOK, Grows
<1> QED
  BY <1>1, <1>2, <1>3 DEF WorkTrue, Grows, Plan

LEMMA MayGoOutLasts ==
    ASSUME Grows, NEW c \in Case, MayGoOut(c)
    PROVE  MayGoOut(c)'
BY DEF Grows, MayGoOut, HardRulesPass, MoneyActions, Plan

\* A step that changes one row and one run at most, both truthfully.
LEMMA TruthKept ==
    ASSUME TypeOK, TypeOK', TruthInv, Grows,
           NEW c \in Case, NEW s, NEW r \in Run, NEW w,
           \/ thread' = thread
           \/ thread' = [thread EXCEPT ![c] = s] /\ StateTrue(c, s)',
           run' = [run EXCEPT ![r] = w], w = Idle \/ WorkTrue(c, w)',
           \A d \in Case : posts'[d] > 0 => posts[d] > 0 \/ MayGoOut(d)
    PROVE  TruthInv'
<1>1. ASSUME NEW d \in Case
      PROVE  StateTrue(d, thread[d])'
  <2>1. PICK t : t = thread[d]
    OBVIOUS
  <2>2. StateTrue(d, t)'
    BY <2>1, StateLasts DEF TruthInv
  <2> QED
    BY <2>1, <2>2 DEF TypeOK
<1>2. ASSUME NEW q \in Run, run'[q] # Idle
      PROVE  WorkTrue(run[q].case, run[q])'
  <2>1. CASE q = r
    <3>1. run'[q] = w
      BY <2>1 DEF TypeOK
    <3>2. w # Idle
      BY <1>2, <3>1
    <3>3. WorkTrue(c, w)' /\ w.case = c
      BY <3>2 DEF WorkTrue
    <3> QED
      BY <3>1, <3>3
  <2>2. CASE q # r
    <3>1. run'[q] = run[q]
      BY <2>2 DEF TypeOK
    <3>2. PICK d, v : d \in Case /\ d = run[q].case /\ v = run[q]
      BY <1>2, <3>1, BusyRun
    <3>3. WorkTrue(d, v)'
      BY <1>2, <3>1, <3>2, WorkLasts DEF TruthInv
    <3> QED
      BY <3>1, <3>2, <3>3
  <2> QED
    BY <2>1, <2>2
<1>3. ASSUME NEW d \in Case, posts'[d] > 0
      PROVE  MayGoOut(d)'
  BY <1>3, MayGoOutLasts DEF TruthInv
<1>4. Idle' = Idle
  BY DEF Idle
<1> QED
  BY <1>1, <1>2, <1>3, <1>4 DEF TruthInv

-----------------------------------------------------------------------------
(* Every step tells the truth.                                              *)

\* The hypotheses on the run that takes a step, w being its record.
AtWork(r, c, w) == run[r] = w /\ w # Idle /\ w \in Work(c)

LEMMA WorkAtHand ==
    ASSUME TypeOK, TruthInv, NEW r \in Run, run[r] # Idle
    PROVE  \E c \in Case : \E w \in Work(c) : AtWork(r, c, w) /\ WorkTrue(c, w)
<1>1. run[r].case \in Case /\ run[r] \in Work(run[r].case)
  BY BusyRun
<1> QED
  BY <1>1 DEF AtWork, TruthInv

LEMMA SaveKeepsTruth ==
    ASSUME TypeOK, TypeOK', TruthInv, NEW r \in Run, NEW c \in Case, NEW w \in Work(c),
           AtWork(r, c, w), NEW s \in CaseState(c), s.next # "start", StateTrue(c, s),
           Save(r, s), UNCHANGED <<ledger, history>>
    PROVE  TruthInv'
<1>1. Grows
  BY DEF Grows, ledger, history, TypeOK
<1>2. StateTrue(c, s)'
  BY <1>1, StateLasts
<1>3. w.case = c
  BY DEF Work
<1>4. PICK v : v = IF s.next = "end" THEN Idle ELSE Working(c, s, Nothing)
  OBVIOUS
<1>5. thread' = [thread EXCEPT ![c] = s] /\ run' = [run EXCEPT ![r] = v]
  BY <1>3, <1>4 DEF Save, AtWork, TypeOK
<1>6. v = Idle \/ WorkTrue(c, v)'
  <2> SUFFICES ASSUME s.next # "end" PROVE WorkTrue(c, v)'
    BY <1>4
  <2>1. v = Working(c, s, Nothing)
    BY <1>4
  <2>2. Plan(c) \in Seq(Action)
    BY CaseAssumption DEF Plan, Finding
  <2>3. Len(Plan(c)) \in Nat
    BY <2>2
  <2>4. v.case = c /\ v.state = s /\ v.resume = Nothing /\ v.receipt = "no" /\ v.results = <<>>
    BY <2>1 DEF Working
  <2> QED
    BY <1>2, <2>3, <2>4 DEF WorkTrue, Done, Plan
<1>7. \A d \in Case : posts'[d] = posts[d]
  BY DEF history
<1> QED
  BY <1>1, <1>2, <1>5, <1>6, <1>7, TruthKept

LEMMA StopKeepsTruth ==
    ASSUME TypeOK, TypeOK', TruthInv, NEW r \in Run, NEW c \in Case,
           Stop(r), UNCHANGED thread, UNCHANGED <<ledger, history>>
    PROVE  TruthInv'
<1>1. Grows /\ \A d \in Case : posts'[d] = posts[d]
  BY DEF Grows, ledger, history, TypeOK
<1> QED
  BY <1>1, TruthKept DEF Stop

LEMMA ReviewGateKeepsTruth ==
    ASSUME TypeOK, TypeOK', TruthInv, NEW r \in Run, NEW c \in Case, NEW w \in Work(c),
           AtWork(r, c, w), WorkTrue(c, w), ReviewGate(r)
    PROVE  TruthInv'
<1>1. CASE Stop(r) /\ UNCHANGED thread
  BY <1>1, StopKeepsTruth DEF ReviewGate
<1>2. ASSUME NEW review \in Review(c), review.decision # "reject" => MayGoOut(c),
             Save(r, [w.state EXCEPT
                          !.review = review,
                          !.next = IF review.decision = "reject" THEN "act" ELSE "publish"])
      PROVE  TruthInv'
  <2>1. PICK s : s = [w.state EXCEPT
                          !.review = review,
                          !.next = IF review.decision = "reject" THEN "act" ELSE "publish"]
    OBVIOUS
  <2>2. w.state \in CaseState(c)
    BY DEF Work
  <2>3. s \in CaseState(c)
    BY <2>1, <2>2 DEF CaseState, Node
  <2>4. /\ s.next = IF review.decision = "reject" THEN "act" ELSE "publish"
        /\ s.voice = w.state.voice /\ s.published = w.state.published
        /\ s.results = w.state.results /\ s.closure = w.state.closure
    BY <2>1, <2>2 DEF CaseState
  <2>5. StateTrue(c, w.state) /\ w.state.next = "review_gate"
    BY <1>2 DEF WorkTrue, AtWork, ReviewGate, At
  <2>6. StateTrue(c, s)
    BY <1>2, <2>4, <2>5 DEF StateTrue, AfterAct
  <2>7. UNCHANGED <<ledger, history>>
    BY DEF ReviewGate
  <2>8. Save(r, s) /\ s.next # "start"
    BY <1>2, <2>1, <2>4
  <2> QED
    BY <2>3, <2>6, <2>7, <2>8, SaveKeepsTruth
<1>3. AutoReview \in Review(c)
  BY DEF AutoReview, Review
<1>4. \A rule \in Rules : AutoPostAllowed(c, rule) => MayGoOut(c)
  BY DEF AutoPostAllowed, MayGoOut
<1>5. ASSUME Answers(r, "review")
      PROVE  /\ HumanReview(w.resume) \in Review(c)
             /\ HumanReview(w.resume).decision # "reject" => MayGoOut(c)
  <2>1. w.resume \in ReviewPayload(c) /\ w.resume.kind = "review"
    BY <1>5 DEF Work, Answers, AtWork, Payload, VoicePayload, Nothing
  <2>2. w.resume \in sent[c]
    BY <2>1 DEF WorkTrue, Nothing
  <2> QED
    BY <2>1, <2>2 DEF ReviewPayload, HumanReview, Review, MayGoOut
<1>6. w.case = c /\ run[r] = w
  BY DEF Work, AtWork
<1> QED
  BY <1>1, <1>2, <1>3, <1>4, <1>5, <1>6 DEF ReviewGate

LEMMA PostKeepsTruth ==
    ASSUME TypeOK, TypeOK', TruthInv, NEW r \in Run, NEW c \in Case, NEW w \in Work(c),
           AtWork(r, c, w), WorkTrue(c, w), Post(r)
    PROVE  TruthInv'
<1>1. PICK receipt \in {"posted", "blocked"}, landed \in BOOLEAN :
        /\ receipt = "posted" => landed
        /\ run' = [run EXCEPT ![r].receipt = receipt, ![r].resume = Nothing]
        /\ posts' = [posts EXCEPT ![run[r].case] = IF landed THEN @ + 1 ELSE @]
  BY DEF Post
<1>2. run[r] = w /\ w.case = c /\ posts \in [Case -> Nat]
  BY DEF AtWork, Work, TypeOK
<1>3. Grows
  BY <1>1, <1>2 DEF Post, Grows, ledger
<1>4. PICK v : v = [w EXCEPT !.receipt = receipt, !.resume = Nothing]
  OBVIOUS
<1>5. run' = [run EXCEPT ![r] = v]
  BY <1>1, <1>2, <1>4
<1>6. /\ v.case = c /\ v.state = w.state /\ v.resume = Nothing /\ v.receipt = receipt
      /\ v.results = w.results
  BY <1>4 DEF Work
<1>7. receipt = "posted" => posts'[c] > 0
  BY <1>1, <1>2
<1>8. WorkTrue(c, w)'
  BY <1>3, WorkLasts
<1>9. WorkTrue(c, v)'
  BY <1>6, <1>7, <1>8 DEF WorkTrue
<1>10. MayGoOut(c)
  BY <1>2 DEF WorkTrue, StateTrue, Post, At
<1>11. \A d \in Case : posts'[d] > 0 => posts[d] > 0 \/ MayGoOut(d)
  BY <1>1, <1>2, <1>10
<1>12. UNCHANGED thread
  BY DEF Post
<1> QED
  BY <1>3, <1>5, <1>9, <1>11, <1>12, TruthKept

LEMMA PublishEndsKeepsTruth ==
    ASSUME TypeOK, TypeOK', TruthInv, NEW r \in Run, NEW c \in Case, NEW w \in Work(c),
           AtWork(r, c, w), WorkTrue(c, w), PublishEnds(r)
    PROVE  TruthInv'
<1>1. PICK s : s = [w.state EXCEPT !.published = w.receipt, !.next = "act"]
  OBVIOUS
<1>2. Save(r, s) /\ UNCHANGED <<ledger, history>> /\ w.state.next = "publish"
  BY <1>1 DEF PublishEnds, AtWork, At
<1>3. s \in CaseState(c)
  BY <1>1 DEF Work, CaseState, Node
<1>4. /\ s.next = "act" /\ s.published = w.receipt /\ s.voice = w.state.voice
      /\ s.results = w.state.results /\ s.closure = w.state.closure
  BY <1>1 DEF Work, CaseState
<1>5. StateTrue(c, s)
  BY <1>2, <1>4 DEF WorkTrue, StateTrue, AfterAct
<1> QED
  BY <1>2, <1>3, <1>4, <1>5, SaveKeepsTruth

LEMMA AppendedIsDone ==
    ASSUME NEW c \in Case, NEW results \in Seq(Status), NEW status \in Status,
           Done(c, results)', Len(results) + 1 \in DOMAIN Plan(c),
           status = "executed" => Reached(c, Len(results) + 1)'
    PROVE  Done(c, Append(results, status))' /\ Len(Append(results, status)) <= Len(Plan(c))
<1>1. Plan(c) \in Seq(Action)
  BY CaseAssumption DEF Plan, Finding
<1>2. Len(Append(results, status)) <= Len(Plan(c))
  BY <1>1
<1>3. ASSUME NEW i \in DOMAIN Append(results, status), Append(results, status)[i] = "executed"
      PROVE  i \in DOMAIN Plan(c) /\ Reached(c, i)'
  <2>1. CASE i = Len(results) + 1
    BY <1>3, <2>1
  <2>2. CASE i # Len(results) + 1
    <3>1. i \in DOMAIN results /\ results[i] = "executed"
      BY <1>3, <2>2
    <3> QED
      BY <3>1 DEF Done, Plan
  <2> QED
    BY <2>1, <2>2
<1> QED
  BY <1>2, <1>3 DEF Done, Plan

LEMMA OutcomeKeepsTruth ==
    ASSUME TypeOK, TypeOK', TruthInv, NEW r \in Run, NEW c \in Case, NEW w \in Work(c),
           AtWork(r, c, w), WorkTrue(c, w), AtAction(r), NEW status \in Status,
           run' = [run EXCEPT ![r] = Outcome(r, status)], UNCHANGED <<thread, history>>,
           Grows, status = "executed" => Reached(c, Len(w.results) + 1)'
    PROVE  TruthInv'
<1>1. run[r] = w /\ w.case = c
  BY DEF AtWork, Work
<1>2. PICK v : v = [w EXCEPT !.results = Append(@, status), !.calling = FALSE,
                             !.resume = Nothing]
  OBVIOUS
<1>3. run' = [run EXCEPT ![r] = v]
  BY <1>1, <1>2 DEF Outcome
<1>4. /\ v.case = c /\ v.state = w.state /\ v.resume = Nothing /\ v.receipt = w.receipt
      /\ v.results = Append(w.results, status)
  BY <1>1, <1>2 DEF Work
<1>5. WorkTrue(c, w)'
  BY WorkLasts
<1>6. w.results \in Seq(Status) /\ Len(w.results) + 1 \in DOMAIN Plan(c)
  BY <1>1 DEF AtAction, Current, Work
<1>7. Done(c, v.results)' /\ Len(v.results) <= Len(Plan(c))
  BY <1>4, <1>5, <1>6, AppendedIsDone DEF WorkTrue
<1>8. WorkTrue(c, v)'
  BY <1>4, <1>5, <1>7 DEF WorkTrue, Plan
<1>9. \A d \in Case : posts'[d] = posts[d]
  BY DEF history
<1> QED
  BY <1>3, <1>8, <1>9, TruthKept

LEMMA CheckActionKeepsTruth ==
    ASSUME TypeOK, TypeOK', TruthInv, NEW r \in Run, NEW c \in Case, NEW w \in Work(c),
           AtWork(r, c, w), WorkTrue(c, w), CheckAction(r)
    PROVE  TruthInv'
<1>1. UNCHANGED <<thread, ledger, history>> /\ AtAction(r) /\ run[r] = w
  BY DEF CheckAction, AtWork
<1>2. Grows /\ \A d \in Case : posts'[d] = posts[d]
  BY <1>1 DEF Grows, ledger, history, TypeOK
<1>3. ASSUME NEW status \in {"not_approved", "blocked"},
             run' = [run EXCEPT ![r] = Outcome(r, status)]
      PROVE  TruthInv'
  BY <1>1, <1>2, <1>3, OutcomeKeepsTruth DEF Status
<1>4. ASSUME run' = [run EXCEPT ![r].calling = TRUE, ![r].resume = Nothing]
      PROVE  TruthInv'
  <2>1. PICK v : v = [w EXCEPT !.calling = TRUE, !.resume = Nothing]
    OBVIOUS
  <2>2. run' = [run EXCEPT ![r] = v]
    BY <1>1, <1>4, <2>1
  <2>3. /\ v.case = c /\ v.state = w.state /\ v.resume = Nothing /\ v.receipt = w.receipt
        /\ v.results = w.results
    BY <2>1 DEF Work
  <2>4. WorkTrue(c, v)'
    BY <1>2, <2>3, WorkLasts DEF WorkTrue
  <2> QED
    BY <1>1, <1>2, <2>2, <2>4, TruthKept
<1> QED
  BY <1>3, <1>4 DEF CheckAction

LEMMA CarriedIsReached ==
    ASSUME NEW c \in Case, NEW i, Carry(c, Plan(c)[i])
    PROVE  Reached(c, i)' /\ tickets \subseteq tickets' /\ reversals \subseteq reversals'
<1> DEFINE a == Plan(c)[i]
           m == Movement(c, a)
<1>1. m.case = c /\ m.reference = a.reference
  BY DEF Movement
<1>2. Plan(c)' = Plan(c)
  BY DEF Plan
<1>3. CASE a.kind = "ticket"
  BY <1>2, <1>3 DEF Carry, Reached, TicketKey
<1>4. CASE a.kind # "ticket"
  <2>1. reversals' = IF SameKey(c, a) THEN reversals ELSE reversals \cup {m}
    BY <1>4 DEF Carry
  <2>2. SameKey(c, a)'
    <3> HIDE DEF m
    <3> QED
      BY <1>1, <1>2, <2>1 DEF SameKey
  <2> QED
    BY <1>2, <1>4, <2>1, <2>2 DEF Carry, Reached
<1> QED
  BY <1>3, <1>4

LEMMA CallToolKeepsTruth ==
    ASSUME TypeOK, TypeOK', TruthInv, NEW r \in Run, NEW c \in Case, NEW w \in Work(c),
           AtWork(r, c, w), WorkTrue(c, w), CallTool(r)
    PROVE  TruthInv'
<1>1. /\ UNCHANGED <<thread, history>> /\ AtAction(r)
      /\ run[r] = w /\ w.case = c /\ Current(r) = Len(w.results) + 1
  BY DEF CallTool, AtWork, Work, Current
<1>2. ASSUME Carry(c, Plan(c)[Len(w.results) + 1]), NEW status \in {"executed", "failed"},
             run' = [run EXCEPT ![r] = Outcome(r, status)]
      PROVE  TruthInv'
  <2>1. /\ Reached(c, Len(w.results) + 1)'
        /\ tickets \subseteq tickets' /\ reversals \subseteq reversals'
    BY <1>2, CarriedIsReached
  <2>2. Grows
    BY <1>1, <2>1 DEF Grows, history, TypeOK
  <2> QED
    BY <1>1, <1>2, <2>1, <2>2, OutcomeKeepsTruth DEF Status
<1>3. ASSUME UNCHANGED ledger, run' = [run EXCEPT ![r] = Outcome(r, "failed")]
      PROVE  TruthInv'
  <2>1. Grows
    BY <1>1, <1>3 DEF Grows, ledger, history, TypeOK
  <2> QED
    BY <1>1, <1>3, <2>1, OutcomeKeepsTruth DEF Status
<1> QED
  BY <1>1, <1>2, <1>3 DEF CallTool

LEMMA ActEndsKeepsTruth ==
    ASSUME TypeOK, TypeOK', TruthInv, NEW r \in Run, NEW c \in Case, NEW w \in Work(c),
           AtWork(r, c, w), WorkTrue(c, w), ActEnds(r)
    PROVE  TruthInv'
<1>1. PICK s : s = [w.state EXCEPT !.results = w.results,
                                   !.next = IF w.state.review.decision = "reject"
                                            THEN "close" ELSE "escalation"]
  OBVIOUS
<1>2. /\ Save(r, s) /\ UNCHANGED <<ledger, history>>
      /\ ~AtAction(r) /\ w.state.next = "act" /\ run[r] = w /\ w.case = c /\ At(r, "act")
  BY <1>1 DEF ActEnds, AtWork, At, Work
<1>3. s \in CaseState(c)
  BY <1>1 DEF Work, CaseState, Node
<1>4. /\ s.next \in {"close", "escalation"} /\ s.published = w.state.published
      /\ s.voice = w.state.voice /\ s.results = w.results /\ s.closure = w.state.closure
  BY <1>1 DEF Work, CaseState
<1>5. Len(w.results) = Len(Plan(c))
  <2>1. w.results \in Seq(Status) /\ Plan(c) \in Seq(Action)
    BY CaseAssumption DEF Work, Plan, Finding
  <2>2. Len(w.results) + 1 \notin DOMAIN Plan(c)
    BY <1>2 DEF AtAction, Current
  <2>3. Len(w.results) <= Len(Plan(c))
    BY DEF WorkTrue
  <2> QED
    BY <2>1, <2>2, <2>3
<1>6. StateTrue(c, s)
  BY <1>2, <1>4, <1>5 DEF WorkTrue, StateTrue, AfterAct
<1> QED
  BY <1>2, <1>3, <1>4, <1>6, SaveKeepsTruth

LEMMA EscalationKeepsTruth ==
    ASSUME TypeOK, TypeOK', TruthInv, NEW r \in Run, NEW c \in Case, NEW w \in Work(c),
           AtWork(r, c, w), WorkTrue(c, w), Escalation(r)
    PROVE  TruthInv'
<1>1. run[r] = w /\ w.case = c /\ w.state.next = "escalation"
  BY DEF Escalation, At, AtWork, Work
<1>2. PICK rule \in Rules :
        Save(r, [w.state EXCEPT !.callOwed = CallOwed(c, rule),
                                !.next = IF CallOwed(c, rule) THEN "voice" ELSE "close"])
  BY <1>1 DEF Escalation
<1>3. PICK s : s = [w.state EXCEPT !.callOwed = CallOwed(c, rule),
                                   !.next = IF CallOwed(c, rule) THEN "voice" ELSE "close"]
  OBVIOUS
<1>4. CallOwed(c, rule) \in BOOLEAN
  BY CaseAssumption DEF CallOwed, Finding
<1>5. s \in CaseState(c)
  BY <1>3, <1>4 DEF Work, CaseState, Node
<1>6. /\ s.next \in {"voice", "close"} /\ s.published = w.state.published
      /\ s.voice = w.state.voice /\ s.results = w.state.results /\ s.closure = w.state.closure
  BY <1>3 DEF Work, CaseState
<1>7. StateTrue(c, s)
  BY <1>1, <1>6 DEF WorkTrue, StateTrue, AfterAct
<1>8. Save(r, s) /\ UNCHANGED <<ledger, history>>
  BY <1>2, <1>3 DEF Escalation
<1> QED
  BY <1>5, <1>6, <1>7, <1>8, SaveKeepsTruth

LEMMA VoiceCallKeepsTruth ==
    ASSUME TypeOK, TypeOK', TruthInv, NEW r \in Run, NEW c \in Case, NEW w \in Work(c),
           AtWork(r, c, w), WorkTrue(c, w), VoiceCall(r)
    PROVE  TruthInv'
<1>1. run[r] = w /\ w.case = c /\ w.state.next = "voice" /\ UNCHANGED <<ledger, history>>
  BY DEF VoiceCall, At, AtWork, Work
<1>2. CASE Stop(r) /\ UNCHANGED thread
  BY <1>1, <1>2, StopKeepsTruth
<1>3. ASSUME NEW voice \in Call, voice # "none" => Reported(c, voice),
             Save(r, [w.state EXCEPT !.voice = voice, !.next = "close"])
      PROVE  TruthInv'
  <2>1. PICK s : s = [w.state EXCEPT !.voice = voice, !.next = "close"]
    OBVIOUS
  <2>2. s \in CaseState(c)
    BY <2>1 DEF Work, CaseState, Node
  <2>3. /\ s.next = "close" /\ s.published = w.state.published
        /\ s.voice = voice /\ s.results = w.state.results /\ s.closure = w.state.closure
    BY <2>1 DEF Work, CaseState
  <2>4. StateTrue(c, s)
    BY <1>1, <1>3, <2>3 DEF WorkTrue, StateTrue, AfterAct
  <2>5. Save(r, s)
    BY <1>3, <2>1
  <2> QED
    BY <1>1, <2>2, <2>3, <2>4, <2>5, SaveKeepsTruth
<1>4. Answers(r, "voice") => w.resume.call \in Call /\ Reported(c, w.resume.call)
  <2> SUFFICES ASSUME Answers(r, "voice")
               PROVE  w.resume.call \in Call /\ Reported(c, w.resume.call)
    OBVIOUS
  <2>1. w.resume.kind = "voice" /\ w.resume \in Payload(c) \cup {Nothing}
    BY <1>1 DEF Answers, Work
  <2>2. w.resume \in VoicePayload /\ w.resume # Nothing
    BY <2>1 DEF Payload, ReviewPayload, Nothing
  <2> QED
    BY <2>1, <2>2 DEF VoicePayload, WorkTrue, Reported
<1>5. "none" \in Call
  BY DEF Call
<1> QED
  BY <1>1, <1>2, <1>3, <1>4, <1>5 DEF VoiceCall

LEMMA CloseKeepsTruth ==
    ASSUME TypeOK, TypeOK', TruthInv, NEW r \in Run, NEW c \in Case, NEW w \in Work(c),
           AtWork(r, c, w), WorkTrue(c, w), Close(r)
    PROVE  TruthInv'
<1>1. PICK s : s = [w.state EXCEPT !.closure = IF Resolved(w.state) THEN "resolved"
                                               ELSE "unresolved",
                                   !.next = "end"]
  OBVIOUS
<1>2. Save(r, s) /\ UNCHANGED <<ledger, history>> /\ w.state.next = "close"
  BY <1>1 DEF Close, AtWork, At
<1>3. s \in CaseState(c)
  BY <1>1 DEF Work, CaseState
<1>4. /\ s.next = "end" /\ s.published = w.state.published /\ s.voice = w.state.voice
      /\ s.results = w.state.results /\ s.callOwed = w.state.callOwed
      /\ s.closure = "resolved" => Resolved(w.state)
  BY <1>1 DEF Work, CaseState
<1>5. /\ Len(w.state.results) = Len(Plan(c)) /\ Done(c, w.state.results)
      /\ w.state.results \in Seq(Status) /\ Plan(c) \in Seq(Action)
  BY <1>2, CaseAssumption DEF WorkTrue, StateTrue, AfterAct, Work, CaseState, Plan, Finding
<1>6. ~Unfinished(w.state.results) => AllReached(c)
  <2>1. DOMAIN w.state.results = DOMAIN Plan(c)
    BY <1>5
  <2> QED
    BY <1>5, <2>1 DEF Unfinished, Done, AllReached
<1>7. w.state.voice \in Call
  BY DEF Work, CaseState
<1>8. w.state.voice # "none" =>
          /\ Reported(c, w.state.voice)
          /\ \E p \in sent[c] : p.kind = "voice" /\ p.call # "none"
  BY DEF WorkTrue, StateTrue, Reported
<1>9. StateTrue(c, s)
  BY <1>2, <1>4, <1>5, <1>6, <1>8 DEF WorkTrue, StateTrue, Resolved
<1> QED
  BY <1>2, <1>3, <1>4, <1>9, SaveKeepsTruth

LEMMA BeginKeepsTruth ==
    ASSUME TypeOK, TypeOK', TruthInv, NEW r \in Run, NEW c \in Case, Begin(r, c)
    PROVE  TruthInv'
<1>1. PICK s : s = [thread[c] EXCEPT !.next = "review_gate"]
  OBVIOUS
<1>2. PICK v : v = Working(c, s, Nothing)
  OBVIOUS
<1>3. /\ thread' = [thread EXCEPT ![c] = s] /\ run' = [run EXCEPT ![r] = v]
      /\ UNCHANGED <<ledger, history>> /\ thread[c].next = "start"
  BY <1>1, <1>2 DEF Begin
<1>4. Grows /\ \A d \in Case : posts'[d] = posts[d]
  BY <1>3 DEF Grows, ledger, history, TypeOK
<1>5. /\ s.next = "review_gate" /\ s.published = thread[c].published
      /\ s.voice = thread[c].voice /\ s.results = thread[c].results
      /\ s.closure = thread[c].closure
  BY <1>1 DEF TypeOK, CaseState
<1>6. StateTrue(c, s)
  BY <1>3, <1>5 DEF TruthInv, StateTrue, AfterAct
<1>7. StateTrue(c, s)'
  BY <1>4, <1>6, StateLasts
<1>8. /\ v.case = c /\ v.state = s /\ v.resume = Nothing /\ v.receipt = "no"
      /\ v.results = <<>>
  BY <1>2 DEF Working
<1>9. Len(Plan(c)) \in Nat
  <2>1. Plan(c) \in Seq(Action)
    BY CaseAssumption DEF Plan, Finding
  <2> QED
    BY <2>1
<1>10. WorkTrue(c, v)'
  BY <1>5, <1>7, <1>8, <1>9 DEF WorkTrue, Done, Plan
<1> QED
  BY <1>3, <1>4, <1>7, <1>10, TruthKept

LEMMA ResumeKeepsTruth ==
    ASSUME TypeOK, TypeOK', TruthInv, NEW r \in Run, NEW c \in Case, NEW p \in Payload(c),
           Resume(r, c, p)
    PROVE  TruthInv'
<1>1. PICK s : s = thread[c]
  OBVIOUS
<1>2. PICK v : v = Working(c, s, p)
  OBVIOUS
<1>3. /\ thread' = thread /\ run' = [run EXCEPT ![r] = v] /\ s.next \notin {"start", "end"}
      /\ p \in sent'[c] /\ UNCHANGED <<ledger, posts>>
  BY <1>1, <1>2 DEF Resume, Loaded, TypeOK
<1>4. Grows /\ \A d \in Case : posts'[d] = posts[d]
  BY <1>3 DEF Resume, Grows, ledger, TypeOK
<1>5. StateTrue(c, s)'
  BY <1>1, <1>4, StateLasts DEF TruthInv
<1>6. /\ v.case = c /\ v.state = s /\ v.resume = p /\ v.receipt = "no"
      /\ v.results = <<>>
  BY <1>2 DEF Working
<1>7. Len(Plan(c)) \in Nat
  <2>1. Plan(c) \in Seq(Action)
    BY CaseAssumption DEF Plan, Finding
  <2> QED
    BY <2>1
<1>8. WorkTrue(c, v)'
  BY <1>3, <1>5, <1>6, <1>7 DEF WorkTrue, Done, Plan
<1> QED
  BY <1>3, <1>4, <1>8, TruthKept

LEMMA TruthStep ==
    ASSUME TypeOK, TypeOK', TruthInv, [Next]_vars
    PROVE  TruthInv'
<1>1. ASSUME NEW r \in Run, Step(r) PROVE TruthInv'
  <2>1. run[r] # Idle
    BY <1>1, AtIsBusy DEF Step, ReviewGate, Post, PublishEnds, CheckAction, CallTool,
       AtAction, ActEnds, Escalation, VoiceCall, Close
  <2>2. PICK c \in Case : \E w \in Work(c) : AtWork(r, c, w) /\ WorkTrue(c, w)
    BY <2>1, WorkAtHand
  <2>3. PICK w \in Work(c) : AtWork(r, c, w) /\ WorkTrue(c, w)
    BY <2>2
  <2> QED
    BY <1>1, <2>3, ReviewGateKeepsTruth, PostKeepsTruth, PublishEndsKeepsTruth,
       CheckActionKeepsTruth, CallToolKeepsTruth, ActEndsKeepsTruth, EscalationKeepsTruth,
       VoiceCallKeepsTruth, CloseKeepsTruth DEF Step
<1>2. ASSUME Crash \/ UNCHANGED vars PROVE TruthInv'
  <2>1. Grows /\ thread' = thread /\ posts' = posts
    BY <1>2 DEF Crash, vars, ledger, history, Grows, TypeOK
  <2>2. \A r \in Run : run'[r] = run[r] \/ run'[r] = Idle
    BY <1>2 DEF Crash, vars
  <2>3. ASSUME NEW d \in Case
        PROVE  StateTrue(d, thread[d])' /\ (posts'[d] > 0 => MayGoOut(d)')
    <3>1. PICK t : t = thread[d]
      OBVIOUS
    <3>2. StateTrue(d, t)'
      BY <2>1, <3>1, StateLasts DEF TruthInv
    <3> QED
      BY <2>1, <3>1, <3>2, MayGoOutLasts DEF TruthInv
  <2>4. ASSUME NEW r \in Run, run'[r] # Idle
        PROVE  WorkTrue(run[r].case, run[r])'
    <3>1. PICK d, v : d \in Case /\ d = run[r].case /\ v = run[r]
      BY <2>2, <2>4, BusyRun
    <3>2. WorkTrue(d, v)'
      BY <2>1, <2>2, <2>4, <3>1, WorkLasts DEF TruthInv
    <3> QED
      BY <2>2, <2>4, <3>1, <3>2
  <2>5. Idle' = Idle
    BY DEF Idle
  <2> QED
    BY <2>3, <2>4, <2>5 DEF TruthInv
<1> QED
  BY <1>1, <1>2, BeginKeepsTruth, ResumeKeepsTruth DEF Next

LEMMA TruthInvariant == Spec => []TruthInv
<1>1. Init => TruthInv
  <2> SUFFICES ASSUME Init PROVE TruthInv
    OBVIOUS
  <2>1. \A r \in Run : run[r] = Idle
    BY DEF Init
  <2>2. \A c \in Case : posts[c] = 0 /\ thread[c] = NewCase
    BY DEF Init
  <2> QED
    BY <2>1, <2>2 DEF TruthInv, StateTrue, NewCase, Done, AfterAct
<1>2. TypeOK /\ TypeOK' /\ TruthInv /\ [Next]_vars => TruthInv'
  BY TruthStep
<1> QED
  BY <1>1, <1>2, TypeCorrect, PTL DEF Spec

\* No reply goes out that nobody has looked at, unless every hard rule passes,
\* however the policies change while a case waits (review_gate_node,
\* auto_post_allowed).
THEOREM PostsAlwaysGated == Spec => []PostsAreGated
<1>1. TruthInv => PostsAreGated
  BY DEF TruthInv, PostsAreGated, MayGoOut
<1> QED
  BY <1>1, TruthInvariant, PTL

\* A case that closed as resolved is: its call was reported so, or its reply is
\* out, all its actions are in the ledger and no call is owed (close_node).
THEOREM ResolvedIsAlwaysTrue == Spec => []ResolvedIsTrue
<1>1. TruthInv => ResolvedIsTrue
  BY DEF TruthInv, StateTrue, ResolvedIsTrue, Reported, AllReached
<1> QED
  BY <1>1, TruthInvariant, PTL

-----------------------------------------------------------------------------
(* Who has a case in hand.                                                  *)

\* A step of r at its case c, which leaves the row with s and r with v.
Turns(r, c, s, v) ==
    /\ thread'[c] = s
    /\ \A d \in Case \ {c} : thread'[d] = thread[d]
    /\ run'[r] = v
    /\ \A q \in Run \ {r} : run'[q] = run[q]
    /\ v = Idle \/ v.case = c

\* Nobody else's case loses anything by it.
LEMMA OthersHands ==
    ASSUME NEW r \in Run, NEW c \in Case, NEW w \in Work(c), AtWork(r, c, w),
           NEW s, NEW v, Turns(r, c, s, v)
    PROVE  /\ \A d \in Case \ {c} : Runs(d)' = Runs(d) /\ r \notin Runs(d)
           /\ r \in Runs(c)
           /\ Runs(c)' = IF v = Idle THEN Runs(c) \ {r} ELSE Runs(c)
<1>1. run[r].case = c
  BY DEF AtWork, Work
<1>2. Idle.case \notin Case
  BY CaseAssumption DEF Idle
<1>3. run'[r] = v /\ \A q \in Run \ {r} : run'[q] = run[q]
  BY DEF Turns
<1>4. ASSUME NEW d \in Case, d # c
      PROVE  Runs(d)' = Runs(d) /\ r \notin Runs(d)
  <2>1. run[r].case # d /\ run'[r].case # d
    BY <1>1, <1>2, <1>3, <1>4 DEF Turns
  <2> QED
    BY <1>3, <2>1 DEF Runs
<1>5. r \in Runs(c)
  BY <1>1 DEF Runs
<1>6. CASE v = Idle
  <2>1. run'[r].case # c
    BY <1>2, <1>3, <1>6
  <2>2. Runs(c)' = Runs(c) \ {r}
    BY <1>3, <2>1 DEF Runs
  <2> QED
    BY <1>4, <1>5, <1>6, <2>2
<1>7. CASE v # Idle
  <2>1. run'[r].case = c
    BY <1>3, <1>7 DEF Turns
  <2>2. Runs(c)' = Runs(c)
    BY <1>1, <1>3, <2>1 DEF Runs
  <2> QED
    BY <1>4, <1>5, <1>7, <2>2
<1> QED
  BY <1>6, <1>7

\* The row has somebody who holds it: r, or whoever held it before.
Held(c, w, s, v) ==
    \/ s.next \in Rest
    \/ v # Idle /\ v.state = s
    \/ s = thread[c] /\ w.state.next \in Rest

LEMMA HandsStay ==
    ASSUME NeverStranded, NEW r \in Run, NEW c \in Case, NEW w \in Work(c),
           AtWork(r, c, w), NEW s, NEW v, Turns(r, c, s, v), dropped' = dropped,
           \/ Held(c, w, s, v)
           \/ s = thread[c] /\ v # Idle /\ v.state = w.state
    PROVE  NeverStranded'
<1>0. /\ \A d \in Case \ {c} : Runs(d)' = Runs(d) /\ r \notin Runs(d)
      /\ r \in Runs(c)
      /\ Runs(c)' = IF v = Idle THEN Runs(c) \ {r} ELSE Runs(c)
  BY OthersHands
<1>1. SUFFICES ASSUME NEW d \in Case \ dropped, thread'[d].next \notin Rest
               PROVE  \E q \in Runs(d)' : run'[q].state = thread'[d]
  BY DEF NeverStranded, Rest
<1>2. CASE d # c
  <2>1. thread'[d] = thread[d]
    BY <1>2 DEF Turns
  <2>2. PICK q \in Runs(d) : run[q].state = thread[d]
    BY <1>1, <2>1 DEF NeverStranded
  <2>3. q \in Run \ {r} /\ q \in Runs(d)'
    BY <1>0, <1>2, <2>2 DEF Runs
  <2>4. run'[q] = run[q]
    BY <2>3 DEF Turns
  <2> QED
    BY <2>1, <2>2, <2>3, <2>4
<1>3. CASE d = c /\ v # Idle /\ v.state = s
  <2>1. r \in Runs(c)' /\ run'[r] = v /\ thread'[c] = s
    BY <1>0, <1>3 DEF Turns
  <2> QED
    BY <1>3, <2>1
<1>4. CASE d = c /\ s = thread[c] /\ ~(v # Idle /\ v.state = s)
  <2>1. thread'[c] = s /\ s.next \notin Rest
    BY <1>1, <1>4 DEF Turns
  <2>2. PICK q \in Runs(c) : run[q].state = s
    BY <1>1, <1>4, <2>1 DEF NeverStranded
  <2>3. q # r
    BY <1>4, <2>1, <2>2 DEF AtWork, Held
  <2>4. q \in Runs(c)' /\ run'[q] = run[q]
    BY <1>0, <2>2, <2>3 DEF Turns, Runs
  <2> QED
    BY <1>4, <2>1, <2>2, <2>4
<1>5. thread'[c] = s
  BY DEF Turns
<1> QED
  BY <1>1, <1>2, <1>3, <1>4, <1>5 DEF Held

\* What r has to see to at a case that is its own.
KeptAt(c, s, v) ==
    /\ posts'[c] <= 1
    /\ posts'[c] > 0 =>
          /\ s.next \notin {"start", "review_gate"}
          /\ s.next = "publish" => v # Idle /\ v.receipt # "no"

LEMMA UnsharedStays ==
    ASSUME OnceInv, NEW r \in Run, NEW c \in Case, NEW w \in Work(c),
           AtWork(r, c, w), NEW s, NEW v, Turns(r, c, s, v),
           v = Idle \/ v.state = s \/ (s = thread[c] /\ v.state = w.state),
           disturbed' = disturbed, \A d \in Case \ {c} : posts'[d] = posts[d],
           c \notin disturbed /\ w.state = thread[c] => KeptAt(c, s, v)
    PROVE  OnceInv'
<1>0. /\ \A d \in Case \ {c} : Runs(d)' = Runs(d) /\ r \notin Runs(d)
      /\ r \in Runs(c)
      /\ Runs(c)' = IF v = Idle THEN Runs(c) \ {r} ELSE Runs(c)
  BY OthersHands
<1>1. ASSUME NEW d \in Case \ disturbed, d # c
      PROVE  Unshared(d)'
  <2>1. /\ Unshared(d) /\ thread'[d] = thread[d] /\ Runs(d)' = Runs(d)
        /\ posts'[d] = posts[d]
    BY <1>0, <1>1 DEF OnceInv, Turns
  <2>2. \A q \in Runs(d) : run'[q] = run[q]
    BY <1>0, <1>1 DEF Runs, Turns
  <2> QED
    BY <2>1, <2>2 DEF Unshared
<1>2. ASSUME c \notin disturbed
      PROVE  Unshared(c)'
  <2>1. Unshared(c) /\ Runs(c) = {r}
    BY <1>0, <1>2 DEF OnceInv, Unshared
  <2>2. run[r] = w /\ w.state = thread[c]
    BY <2>1 DEF Unshared, AtWork
  <2>3. Runs(c)' = IF v = Idle THEN {} ELSE {r}
    BY <1>0, <2>1
  <2>4. run'[r] = v /\ thread'[c] = s /\ KeptAt(c, s, v)
    BY <1>2, <2>2 DEF Turns
  <2>5. v # Idle => v.state = s
    BY <2>2
  <2>6. CASE v = Idle
    BY <2>3, <2>4, <2>6 DEF Unshared, KeptAt
  <2>7. CASE v # Idle
    BY <2>3, <2>4, <2>5, <2>7 DEF Unshared, KeptAt
  <2> QED
    BY <2>6, <2>7
<1> QED
  BY <1>1, <1>2 DEF OnceInv

HandsInv == NeverStranded /\ OnceInv

\* What a node that saves a row has to see to.
LEMMA SaveKeepsHands ==
    ASSUME TypeOK, HandsInv, NEW r \in Run, NEW c \in Case, NEW w \in Work(c),
           AtWork(r, c, w), NEW s, Save(r, s), UNCHANGED history,
           \/ s.next \notin {"start", "review_gate", "publish"}
           \/ w.state.next = "review_gate" /\ s.next \notin {"start", "review_gate"}
    PROVE  HandsInv'
<1>1. run[r] = w /\ w.case = c
  BY DEF AtWork, Work
<1>2. PICK v : v = IF s.next = "end" THEN Idle ELSE Working(c, s, Nothing)
  OBVIOUS
<1>3. thread' = [thread EXCEPT ![c] = s] /\ run' = [run EXCEPT ![r] = v]
  BY <1>1, <1>2 DEF Save
<1>4. Working(c, s, Nothing) # Idle
  BY CaseAssumption DEF Working, Idle
<1>5. \/ v = Idle /\ s.next = "end"
      \/ v # Idle /\ v.case = c /\ v.state = s
  BY <1>2, <1>4 DEF Working
<1>6. Turns(r, c, s, v)
  BY <1>3, <1>5 DEF Turns, TypeOK
<1>7. posts' = posts /\ disturbed' = disturbed /\ dropped' = dropped
  BY DEF history
<1>8. ASSUME c \notin disturbed, w.state = thread[c]
      PROVE  KeptAt(c, s, v)
  <2>1. Unshared(c)
    BY <1>8 DEF HandsInv, OnceInv
  <2>2. posts[c] > 0 => s.next \notin {"start", "review_gate", "publish"}
    BY <1>8, <2>1 DEF Unshared
  <2> QED
    BY <1>7, <2>1, <2>2 DEF KeptAt, Unshared
<1>9. Held(c, w, s, v)
  BY <1>5 DEF Held, Rest
<1>10. NeverStranded'
  BY <1>6, <1>7, <1>9, HandsStay DEF HandsInv
<1>11. v = Idle \/ v.state = s
  BY <1>5
<1>12. OnceInv'
  BY <1>6, <1>7, <1>8, <1>11, UnsharedStays DEF HandsInv
<1> QED
  BY <1>10, <1>12 DEF HandsInv

LEMMA StopKeepsHands ==
    ASSUME TypeOK, HandsInv, NEW r \in Run, NEW c \in Case, NEW w \in Work(c),
           AtWork(r, c, w), Stop(r), UNCHANGED thread, UNCHANGED history,
           w.state.next \in {"review_gate", "voice"}
    PROVE  HandsInv'
<1>1. PICK s, v : s = thread[c] /\ v = Idle
  OBVIOUS
<1>2. Turns(r, c, s, v)
  BY <1>1 DEF Stop, TypeOK, Turns
<1>3. posts' = posts /\ disturbed' = disturbed /\ dropped' = dropped
  BY DEF history
<1>4. ASSUME c \notin disturbed, w.state = thread[c]
      PROVE  KeptAt(c, s, v)
  BY <1>1, <1>3, <1>4 DEF HandsInv, OnceInv, Unshared, KeptAt
<1>5. Held(c, w, s, v)
  BY <1>1 DEF Held, Rest
<1>6. NeverStranded'
  BY <1>2, <1>3, <1>5, HandsStay DEF HandsInv
<1>7. OnceInv'
  BY <1>1, <1>2, <1>3, <1>4, UnsharedStays DEF HandsInv
<1> QED
  BY <1>6, <1>7 DEF HandsInv

\* A step inside a node.
LEMMA WorkKeepsHands ==
    ASSUME TypeOK, HandsInv, NEW r \in Run, NEW c \in Case, NEW w \in Work(c),
           AtWork(r, c, w), NEW v, run' = [run EXCEPT ![r] = v],
           v.case = c, v.state = w.state, v.receipt = w.receipt,
           UNCHANGED <<thread, history>>
    PROVE  HandsInv'
<1>1. PICK s : s = thread[c]
  OBVIOUS
<1>2. Turns(r, c, s, v)
  BY <1>1 DEF TypeOK, Turns
<1>3. posts' = posts /\ disturbed' = disturbed /\ dropped' = dropped
  BY DEF history
<1>4. v # Idle
  BY CaseAssumption DEF Idle
<1>5. ASSUME c \notin disturbed, w.state = thread[c]
      PROVE  KeptAt(c, s, v)
  <2>1. Unshared(c) /\ r \in Runs(c) /\ run[r] = w
    BY <1>5 DEF HandsInv, OnceInv, AtWork, Work, Runs
  <2>2. \A q \in Runs(c) : run[q].receipt = v.receipt
    BY <2>1 DEF Unshared
  <2> QED
    BY <1>1, <1>3, <1>4, <2>1, <2>2 DEF Unshared, KeptAt
<1>6. NeverStranded'
  BY <1>1, <1>2, <1>3, <1>4, HandsStay DEF HandsInv
<1>7. OnceInv'
  BY <1>1, <1>2, <1>3, <1>4, <1>5, UnsharedStays DEF HandsInv
<1> QED
  BY <1>6, <1>7 DEF HandsInv

LEMMA PostKeepsHands ==
    ASSUME TypeOK, HandsInv, NEW r \in Run, NEW c \in Case, NEW w \in Work(c),
           AtWork(r, c, w), Post(r)
    PROVE  HandsInv'
<1>1. PICK receipt \in {"posted", "blocked"}, landed \in BOOLEAN :
        /\ run' = [run EXCEPT ![r].receipt = receipt, ![r].resume = Nothing]
        /\ posts' = [posts EXCEPT ![run[r].case] = IF landed THEN @ + 1 ELSE @]
  BY DEF Post
<1>2. /\ run[r] = w /\ w.case = c /\ posts \in [Case -> Nat] /\ w.receipt = "no"
      /\ w.state.next = "publish" /\ UNCHANGED <<thread, disturbed, dropped>>
  BY DEF AtWork, Work, TypeOK, Post, At
<1>3. PICK v : v = [w EXCEPT !.receipt = receipt, !.resume = Nothing]
  OBVIOUS
<1>4. run' = [run EXCEPT ![r] = v]
  BY <1>1, <1>2, <1>3
<1>5. v.case = c /\ v.state = w.state /\ v.receipt = receipt
  BY <1>3 DEF Work
<1>6. v # Idle
  BY <1>5, CaseAssumption DEF Idle
<1>7. PICK s : s = thread[c]
  OBVIOUS
<1>8. Turns(r, c, s, v)
  BY <1>2, <1>4, <1>5, <1>7 DEF TypeOK, Turns
<1>9. (\A d \in Case \ {c} : posts'[d] = posts[d]) /\ posts'[c] <= posts[c] + 1
  BY <1>1, <1>2
<1>10. ASSUME c \notin disturbed, w.state = thread[c]
       PROVE  KeptAt(c, s, v)
  <2>1. Unshared(c) /\ r \in Runs(c)
    BY <1>10 DEF HandsInv, OnceInv, AtWork, Work, Runs
  <2>2. \A q \in Runs(c) : q = r
    BY <2>1 DEF Unshared
  <2>3. posts[c] = 0
    BY <1>2, <1>10, <2>1, <2>2 DEF Unshared
  <2> QED
    BY <1>1, <1>2, <1>5, <1>6, <1>7, <1>9, <1>10, <2>3 DEF KeptAt
<1>11. dropped' = dropped /\ disturbed' = disturbed
  BY <1>2
<1>12. NeverStranded'
  BY <1>5, <1>6, <1>7, <1>8, <1>11, HandsStay DEF HandsInv
<1>13. OnceInv'
  BY <1>5, <1>7, <1>8, <1>9, <1>10, <1>11, UnsharedStays DEF HandsInv
<1> QED
  BY <1>12, <1>13 DEF HandsInv

LEMMA NodeKeepsHands ==
    ASSUME TypeOK, HandsInv, NEW r \in Run, NEW c \in Case, NEW w \in Work(c),
           AtWork(r, c, w), Step(r)
    PROVE  HandsInv'
<1>1. run[r] = w /\ w.case = c /\ w.state \in CaseState(c)
  BY DEF AtWork, Work
<1>2. CASE ReviewGate(r)
  <2>1. w.state.next = "review_gate" /\ UNCHANGED history
    BY <1>1, <1>2 DEF ReviewGate, At
  <2>2. CASE Stop(r) /\ UNCHANGED thread
    BY <2>1, <2>2, StopKeepsHands
  <2>3. ASSUME NEW review,
               Save(r, [w.state EXCEPT
                            !.review = review,
                            !.next = IF review.decision = "reject" THEN "act" ELSE "publish"])
        PROVE  HandsInv'
    <3>1. PICK s : s = [w.state EXCEPT
                            !.review = review,
                            !.next = IF review.decision = "reject" THEN "act" ELSE "publish"]
      OBVIOUS
    <3>2. s.next \in {"act", "publish"} /\ Save(r, s)
      BY <1>1, <2>3, <3>1 DEF CaseState
    <3> QED
      BY <2>1, <3>2, SaveKeepsHands
  <2> QED
    BY <1>1, <1>2, <2>2, <2>3 DEF ReviewGate
<1>3. CASE Post(r)
  BY <1>3, PostKeepsHands
<1>4. CASE PublishEnds(r)
  <2>1. PICK s : s = [w.state EXCEPT !.published = w.receipt, !.next = "act"]
    OBVIOUS
  <2>2. s.next = "act" /\ Save(r, s) /\ UNCHANGED history
    BY <1>1, <1>4, <2>1 DEF PublishEnds, CaseState
  <2> QED
    BY <2>2, SaveKeepsHands
<1>5. ASSUME NEW status, run' = [run EXCEPT ![r] = Outcome(r, status)],
             UNCHANGED <<thread, history>>
      PROVE  HandsInv'
  <2>1. PICK v : v = Outcome(r, status)
    OBVIOUS
  <2>2. v.case = c /\ v.state = w.state /\ v.receipt = w.receipt
    BY <1>1, <2>1 DEF Outcome, Work
  <2> QED
    BY <1>5, <2>1, <2>2, WorkKeepsHands
<1>6. CASE CheckAction(r)
  <2>1. UNCHANGED <<thread, history>>
    BY <1>6 DEF CheckAction
  <2>2. CASE run' = [run EXCEPT ![r].calling = TRUE, ![r].resume = Nothing]
    <3>1. PICK v : v = [w EXCEPT !.calling = TRUE, !.resume = Nothing]
      OBVIOUS
    <3>2. v.case = c /\ v.state = w.state /\ v.receipt = w.receipt
      BY <1>1, <3>1 DEF Work
    <3>3. run' = [run EXCEPT ![r] = v]
      BY <1>1, <2>2, <3>1
    <3> QED
      BY <2>1, <3>2, <3>3, WorkKeepsHands
  <2> QED
    BY <1>5, <1>6, <2>1, <2>2 DEF CheckAction
<1>7. CASE CallTool(r)
  BY <1>5, <1>7 DEF CallTool
<1>8. CASE ActEnds(r)
  <2>1. PICK s : s = [w.state EXCEPT !.results = w.results,
                                     !.next = IF w.state.review.decision = "reject"
                                              THEN "close" ELSE "escalation"]
    OBVIOUS
  <2>2. s.next \in {"close", "escalation"} /\ Save(r, s) /\ UNCHANGED history
    BY <1>1, <1>8, <2>1 DEF ActEnds, CaseState
  <2> QED
    BY <2>2, SaveKeepsHands
<1>9. CASE Escalation(r)
  <2>1. ASSUME NEW rule,
               Save(r, [w.state EXCEPT !.callOwed = CallOwed(c, rule),
                                       !.next = IF CallOwed(c, rule) THEN "voice" ELSE "close"])
        PROVE  HandsInv'
    <3>1. PICK s : s = [w.state EXCEPT !.callOwed = CallOwed(c, rule),
                                       !.next = IF CallOwed(c, rule) THEN "voice" ELSE "close"]
      OBVIOUS
    <3>2. s.next \in {"voice", "close"} /\ Save(r, s) /\ UNCHANGED history
      BY <1>1, <1>9, <2>1, <3>1 DEF Escalation, CaseState
    <3> QED
      BY <3>2, SaveKeepsHands
  <2> QED
    BY <1>1, <1>9, <2>1 DEF Escalation
<1>10. CASE VoiceCall(r)
  <2>1. w.state.next = "voice" /\ UNCHANGED history
    BY <1>1, <1>10 DEF VoiceCall, At
  <2>2. CASE Stop(r) /\ UNCHANGED thread
    BY <2>1, <2>2, StopKeepsHands
  <2>3. ASSUME NEW voice, Save(r, [w.state EXCEPT !.voice = voice, !.next = "close"])
        PROVE  HandsInv'
    <3>1. PICK s : s = [w.state EXCEPT !.voice = voice, !.next = "close"]
      OBVIOUS
    <3>2. s.next = "close" /\ Save(r, s)
      BY <1>1, <2>3, <3>1 DEF CaseState
    <3> QED
      BY <2>1, <3>2, SaveKeepsHands
  <2> QED
    BY <1>1, <1>10, <2>2, <2>3 DEF VoiceCall
<1>11. CASE Close(r)
  <2>1. PICK s : s = [w.state EXCEPT !.closure = IF Resolved(w.state) THEN "resolved"
                                                 ELSE "unresolved",
                                     !.next = "end"]
    OBVIOUS
  <2>2. s.next = "end" /\ Save(r, s) /\ UNCHANGED history
    BY <1>1, <1>11, <2>1 DEF Close, CaseState
  <2> QED
    BY <2>2, SaveKeepsHands
<1> QED
  BY <1>2, <1>3, <1>4, <1>6, <1>7, <1>8, <1>9, <1>10, <1>11 DEF Step

\* A run that was idle takes up the case c, and its row as s.
LEMMA TakenInHand ==
    ASSUME TypeOK, HandsInv, NEW r \in Run, NEW c \in Case, run[r].case = None,
           NEW s, NEW v, thread'[c] = s, \A d \in Case \ {c} : thread'[d] = thread[d],
           run' = [run EXCEPT ![r] = v], v.case = c, v.state = s, posts' = posts,
           dropped' \in {dropped, dropped \ {c}},
           \/ disturbed' = disturbed /\ Runs(c) = {}
           \/ disturbed' = disturbed \cup {c},
           c \notin disturbed' =>
               \/ s = thread[c]
               \/ thread[c].next = "start"
    PROVE  HandsInv'
<1>1. run'[r] = v /\ \A q \in Run \ {r} : run'[q] = run[q]
  BY DEF TypeOK
<1>2. \A d \in Case : r \notin Runs(d)
  BY CaseAssumption DEF Runs
<1>3. \A d \in Case : \A q \in Runs(d) : q \in Run \ {r} /\ run'[q] = run[q]
  BY <1>1, <1>2 DEF Runs
<1>4. Runs(c)' = Runs(c) \cup {r} /\ \A d \in Case \ {c} : Runs(d)' = Runs(d)
  <2>1. run[r].case \notin Case /\ run'[r].case = c
    BY <1>1, CaseAssumption
  <2> QED
    BY <1>1, <2>1 DEF Runs
<1>5. ASSUME NEW d \in Case \ dropped', thread'[d].next \notin Rest
      PROVE  \E q \in Runs(d)' : run'[q].state = thread'[d]
  <2>1. CASE d = c
    BY <1>1, <1>4, <2>1
  <2>2. CASE d # c
    <3>1. d \notin dropped /\ thread'[d] = thread[d]
      BY <1>5, <2>2
    <3>2. PICK q \in Runs(d) : run[q].state = thread[d]
      BY <1>5, <3>1 DEF HandsInv, NeverStranded
    <3> QED
      BY <1>3, <1>4, <2>2, <3>1, <3>2
  <2> QED
    BY <2>1, <2>2
<1>6. ASSUME NEW d \in Case \ disturbed'
      PROVE  Unshared(d)'
  <2>1. CASE d # c
    <3>1. Unshared(d) /\ Runs(d)' = Runs(d) /\ thread'[d] = thread[d]
      BY <1>4, <1>6, <2>1 DEF HandsInv, OnceInv
    <3> QED
      BY <1>3, <3>1 DEF Unshared
  <2>2. CASE d = c
    <3>1. Unshared(c) /\ Runs(c) = {} /\ Runs(c)' = {r}
      BY <1>4, <1>6, <2>2 DEF HandsInv, OnceInv
    <3>2. posts[c] > 0 => thread[c].next \notin {"start", "review_gate", "publish"}
      BY <3>1 DEF Unshared
    <3>3. posts[c] > 0 => s = thread[c]
      BY <1>6, <2>2, <3>2
    <3>4. posts[c] <= 1
      BY <3>1 DEF Unshared
    <3> QED
      BY <1>1, <2>2, <3>1, <3>2, <3>3, <3>4 DEF Unshared
  <2> QED
    BY <2>1, <2>2
<1>7. NeverStranded'
  BY <1>5 DEF NeverStranded, Rest
<1>8. OnceInv'
  BY <1>6 DEF OnceInv
<1> QED
  BY <1>7, <1>8 DEF HandsInv

\* A new case is in nobody's hands: a run that has loaded a row is past START.
LEMMA BeginKeepsHands ==
    ASSUME TypeOK, TruthInv, HandsInv, NEW r \in Run, NEW c \in Case, Begin(r, c)
    PROVE  HandsInv'
<1>1. PICK s : s = [thread[c] EXCEPT !.next = "review_gate"]
  OBVIOUS
<1>2. PICK v : v = Working(c, s, Nothing)
  OBVIOUS
<1>3. /\ thread' = [thread EXCEPT ![c] = s] /\ run' = [run EXCEPT ![r] = v]
      /\ posts' = posts /\ dropped' = dropped /\ disturbed' = disturbed
      /\ thread[c].next = "start" /\ run[r].case = None
  BY <1>1, <1>2 DEF Begin, history
<1>4. v.case = c /\ v.state = s
  BY <1>2 DEF Working
<1>5. thread'[c] = s /\ \A d \in Case \ {c} : thread'[d] = thread[d]
  BY <1>3 DEF TypeOK
<1>6. \/ disturbed' = disturbed /\ Runs(c) = {}
      \/ disturbed' = disturbed \cup {c}
  <2>1. CASE c \in disturbed
    BY <1>3, <2>1
  <2>2. CASE c \notin disturbed
    <3>1. SUFFICES ASSUME NEW q \in Runs(c) PROVE FALSE
      BY <1>3
    <3>2. q \in Run /\ run[q].state.next = "start" /\ run[q] # Idle
      BY <1>3, <2>2, CaseAssumption DEF HandsInv, OnceInv, Unshared, Runs, Idle
    <3> QED
      BY <3>2 DEF TruthInv, WorkTrue
  <2> QED
    BY <2>1, <2>2
<1> QED
  BY <1>3, <1>4, <1>5, <1>6, TakenInHand

LEMMA ResumeKeepsHands ==
    ASSUME TypeOK, HandsInv, NEW r \in Run, NEW c \in Case, NEW p \in Payload(c),
           Resume(r, c, p)
    PROVE  HandsInv'
<1>1. PICK s : s = thread[c]
  OBVIOUS
<1>2. PICK v : v = Working(c, s, p)
  OBVIOUS
<1>3. /\ thread' = thread /\ run' = [run EXCEPT ![r] = v] /\ posts' = posts
      /\ dropped' = dropped \ {c} /\ run[r].case = None
      /\ disturbed' = IF Runs(c) = {} THEN disturbed ELSE disturbed \cup {c}
  BY <1>1, <1>2 DEF Resume, Loaded
<1>4. v.case = c /\ v.state = s
  BY <1>2 DEF Working
<1>5. thread'[c] = s /\ \A d \in Case \ {c} : thread'[d] = thread[d]
  BY <1>1, <1>3
<1>6. \/ disturbed' = disturbed /\ Runs(c) = {}
      \/ disturbed' = disturbed \cup {c}
  BY <1>3
<1> QED
  BY <1>1, <1>3, <1>4, <1>5, <1>6, TakenInHand

\* A crash leaves a case either as it was, in nobody's hands, or disturbed.
LEMMA CrashKeepsHands ==
    ASSUME TypeOK, HandsInv, Crash
    PROVE  HandsInv'
<1>1. /\ thread' = thread /\ posts' = posts /\ disturbed' = disturbed \cup InProgress
      /\ dropped' = dropped \cup InProgress
  BY DEF Crash
<1>2. \A d \in Case : Runs(d)' = {}
  BY CaseAssumption DEF Crash, Runs, Idle
<1>3. \A d \in Case \ InProgress : Runs(d) = {}
  BY DEF InProgress
<1>4. NeverStranded'
  <2>1. SUFFICES ASSUME NEW d \in Case \ dropped', thread[d].next \notin Rest PROVE FALSE
    BY <1>1 DEF NeverStranded, Rest
  <2>2. Runs(d) = {} /\ d \notin dropped
    BY <1>1, <1>3
  <2> QED
    BY <2>1, <2>2 DEF HandsInv, NeverStranded
<1>5. OnceInv'
  <2>1. SUFFICES ASSUME NEW d \in Case \ disturbed' PROVE Unshared(d)'
    BY DEF OnceInv
  <2>2. Runs(d) = {} /\ d \notin disturbed
    BY <1>1, <1>3
  <2> QED
    BY <1>1, <1>2, <2>2 DEF HandsInv, OnceInv, Unshared
<1> QED
  BY <1>4, <1>5 DEF HandsInv

LEMMA HandsStep ==
    ASSUME TypeOK, TruthInv, HandsInv, [Next]_vars
    PROVE  HandsInv'
<1>1. ASSUME NEW r \in Run, Step(r)
      PROVE  HandsInv'
  <2>1. run[r] # Idle
    BY <1>1, AtIsBusy DEF Step, ReviewGate, Post, PublishEnds, CheckAction, CallTool, ActEnds,
        AtAction, Escalation, VoiceCall, Close
  <2>2. PICK c \in Case : \E w \in Work(c) : AtWork(r, c, w) /\ WorkTrue(c, w)
    BY <2>1, WorkAtHand
  <2>3. PICK w \in Work(c) : AtWork(r, c, w)
    BY <2>2
  <2> QED
    BY <1>1, <2>3, NodeKeepsHands
<1>2. CASE UNCHANGED vars
  <2>1. thread' = thread /\ run' = run /\ posts' = posts /\ disturbed' = disturbed
        /\ dropped' = dropped
    BY <1>2 DEF vars, history
  <2>2. \A d \in Case : Runs(d)' = Runs(d)
    BY <2>1 DEF Runs
  <2>3. NeverStranded'
    BY <2>1, <2>2 DEF HandsInv, NeverStranded, Rest
  <2>4. OnceInv'
    BY <2>1, <2>2 DEF HandsInv, OnceInv, Unshared
  <2> QED
    BY <2>3, <2>4 DEF HandsInv
<1> QED
  BY <1>1, <1>2, BeginKeepsHands, ResumeKeepsHands, CrashKeepsHands DEF Next

LEMMA HandsInit == Init => HandsInv
<1> SUFFICES ASSUME Init PROVE HandsInv
  OBVIOUS
<1>1. \A c \in Case : thread[c].next = "start" /\ posts[c] = 0 /\ Runs(c) = {}
  BY CaseAssumption DEF Init, NewCase, Runs, Idle
<1>2. NeverStranded
  BY <1>1 DEF NeverStranded, Rest
<1>3. OnceInv
  BY <1>1 DEF OnceInv, Unshared
<1> QED
  BY <1>2, <1>3 DEF HandsInv

LEMMA HandsInvariant == Spec => []HandsInv
<1>1. TypeOK /\ TruthInv /\ HandsInv /\ [Next]_vars => HandsInv'
  BY HandsStep
<1> QED
  BY <1>1, HandsInit, TypeCorrect, TruthInvariant, PTL DEF Spec

\* "A row, not a process": for any number of cases and of tasks, and however
\* often a case is resumed while it runs, a case that waits for nobody is held
\* by a run that has what was saved last, unless a crash took it and no request
\* has come for it since (graph.py, pipeline.py).
THEOREM NeverLeftStranded == Spec => []NeverStranded
<1>1. HandsInv => NeverStranded
  BY DEF HandsInv
<1> QED
  BY <1>1, HandsInvariant, PTL

\* As long as no two runs of a case overlap and no crash hits it, its reply is
\* posted at most once, whatever is sent for it and however often (publish_node).
THEOREM PostedAtMostOnce == Spec => []PostedOnce
<1>1. HandsInv => PostedOnce
  BY DEF HandsInv, OnceInv, Unshared, PostedOnce
<1> QED
  BY <1>1, HandsInvariant, PTL
================================================================================
