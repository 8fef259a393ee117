------------------------------- MODULE CaseGraph -------------------------------
(***************************************************************************)
(* The second half of a case: from the review gate to its closure          *)
(* (sanwaad/graph/nodes.py, sanwaad/graph/graph.py, sanwaad/pipeline.py),  *)
(* with the executor of actions and the ledger it writes to                *)
(* (sanwaad/actions.py, sanwaad/tools/ledger.py).                          *)
(*                                                                         *)
(* A case is a LangGraph thread: a row of the checkpoint database.  A run  *)
(* is one call of run_case or resume_case: it loads the row, executes node *)
(* after node on its own copy and saves the row after each node, until it  *)
(* reaches the end or an interrupt nobody has answered yet.  Nothing stops *)
(* two runs of one case, and the last one to save a row wins.  A crash     *)
(* takes all the runs and leaves the rows, the ledger and what was posted. *)
(*                                                                         *)
(* A node without an await between its reads and its result is one step;   *)
(* publish and act wait for tools, and so take several.                    *)
(***************************************************************************)
EXTENDS Naturals, Sequences, FiniteSets

CONSTANTS
    Case,            \* cases
    Run,             \* tasks that may run a case
    Reference,       \* references of the ledger's transactions
    Txn,             \* the ledger's seed: Reference -> Transaction
    Complaint,       \* what triage, judge, pattern and plan found: Case -> Finding
    Rules,           \* what the policies and the track record may say at some time
    MaxSubmissions,  \* bound: reviews and call outcomes sent for one case
    MaxCrashes,      \* bound: crashes of the server
    None             \* no case, no reference

Transaction ==
    [owner : STRING, verified : BOOLEAN, amount : Nat, reversible : BOOLEAN]

\* A proposal; tickets may carry a reference and an amount too, unused.
Action ==
    [kind : {"reversal", "ticket"}, reference : Reference \cup {None}, amount : Nat]

\* clean: no hard rule of the gate but the one about money is broken.
\* mustCall: a trigger of ESC-02 that no policy can move has fired.
Finding ==
    [author : STRING, severity : 1 .. 5, clean : BOOLEAN, mustCall : BOOLEAN,
     actions : Seq(Action)]

\* A lead may edit the policies, and the record of a category changes, between
\* any two steps: each reading of the rules finds any of them.
\* auto_post_max_severity, escalate_to_voice_min_severity, reversal_ceiling_inr,
\* and whether the category of the case has earned autonomy.
Rule == [autoMax : 0 .. 3, voiceMin : 2 .. 5, ceiling : Nat, earned : BOOLEAN]

ASSUME CaseAssumption ==
    /\ None \notin Case \cup Reference
    /\ Txn \in [Reference -> Transaction]
    /\ Complaint \in [Case -> Finding]
    /\ Rules \subseteq Rule /\ Rules # {}
    /\ MaxSubmissions \in Nat
    /\ MaxCrashes \in Nat

VARIABLES
    thread,       \* the checkpointed row of each case
    run,          \* what each task is doing
    reversals,    \* the ledger's reversals, one per idempotency key
    tickets,      \* the ledger's tickets, by their idempotency keys
    sent,         \* history: what people have sent for each case
    submissions,  \* history: how many times they have
    posts,        \* history: how often a reply to the case became public
    disturbed,    \* history: cases that two runs shared, or a crash hit
    dropped,      \* history: cases whose runs a crash took, and none came since
    crashes       \* history: crashes so far

ledger == <<reversals, tickets>>
history == <<sent, submissions, posts, disturbed, dropped, crashes>>
vars == <<thread, run, ledger, history>>

-----------------------------------------------------------------------------
(* Data.                                                                    *)

Plan(c) == Complaint[c].actions

\* The actions that move money: only for them is a person's decision read.
MoneyActions(c) == {i \in DOMAIN Plan(c) : Plan(c)[i].kind = "reversal"}

\* What a VoiceOutcome says of the call; close_node reads no more of it.
Call == {"none", "unresolved", "resolved"}

\* POST /review and POST /voice-outcome.  An edit is an approval of another
\* text, and texts are not modelled; approved holds the actions approved.
ReviewPayload(c) ==
    [kind : {"review"}, decision : {"approve", "reject"}, approved : SUBSET MoneyActions(c)]

VoicePayload == [kind : {"voice"}, call : Call]

Payload(c) == ReviewPayload(c) \cup VoicePayload

Nothing == [kind |-> "nothing"]

Review(c) ==
    [decision : {"none", "approve", "reject"}, auto : BOOLEAN,
     approved : SUBSET MoneyActions(c)]

NoReview == [decision |-> "none", auto |-> FALSE, approved |-> {}]

Node == {"review_gate", "publish", "act", "escalation", "voice", "close"}

Status == {"executed", "failed", "blocked", "not_approved"}

\* GrievanceState, as far as these nodes write it; next is the node to run.
CaseState(c) ==
    [next : Node \cup {"start", "end"}, review : Review(c),
     published : {"no", "posted", "blocked"}, results : Seq(Status),
     callOwed : BOOLEAN, voice : Call, closure : {"open", "resolved", "unresolved"}]

NewCase ==
    [next |-> "start", review |-> NoReview, published |-> "no", results |-> <<>>,
     callOwed |-> FALSE, voice |-> "none", closure |-> "open"]

\* A task at work on c: its copy of the state, what it was resumed with as long
\* as its first node is to run, and the local variables of publish_node and
\* act_node.
Work(c) ==
    [case : {c}, state : CaseState(c), resume : Payload(c) \cup {Nothing},
     receipt : {"no", "posted", "blocked"},
     results : Seq(Status), calling : BOOLEAN]

Idle == [case |-> None]

\* Mutant: the review is no channel of the state, and does not survive its node.
WorkingUnreviewed(c, s, payload) ==
    [case |-> c, state |-> [s EXCEPT !.review = NoReview], resume |-> payload,
     receipt |-> "no", results |-> <<>>, calling |-> FALSE]

Working(c, s, payload) ==
    [case |-> c, state |-> s, resume |-> payload,
     receipt |-> "no", results |-> <<>>, calling |-> FALSE]

At(r, node) == run[r].case # None /\ run[r].state.next = node

Runs(c) == {r \in Run : run[r].case = c}

-----------------------------------------------------------------------------
(* The rules, as functions of a case and of what is read when they are.     *)

HardRulesPass(c) == Complaint[c].clean /\ MoneyActions(c) = {}

\* AUTONOMY_MAX_SEVERITY
AutonomyMax == 3

\* Mutant: earned autonomy is asked before the rule about money.
PassesOnMerit(c, rule) ==
    /\ Complaint[c].clean
    /\ \/ Complaint[c].severity <= rule.autoMax
       \/ Complaint[c].severity <= AutonomyMax /\ rule.earned

\* auto_post_allowed: may the reply go out without a person?
AutoPostAllowed(c, rule) ==
    /\ HardRulesPass(c)
    /\ \/ Complaint[c].severity <= rule.autoMax
       \/ Complaint[c].severity <= AutonomyMax /\ rule.earned

AutoReview == [decision |-> "approve", auto |-> TRUE, approved |-> {}]

HumanReview(p) == [decision |-> p.decision, auto |-> FALSE, approved |-> p.approved]

\* Mutant: nobody asks whose debit it is.
ValidForAnyone(c, a, rule) ==
    /\ a.reference \in Reference
    /\ Txn[a.reference].verified
    /\ Txn[a.reference].reversible
    /\ Txn[a.reference].amount = a.amount
    /\ \A m \in reversals : m.reference # a.reference

\* validate_action for a reversal, against the ledger as it is now.  That the
\* debit is not reversed yet is checked twice, on its status and on the
\* reversals; both are written together.
Valid(c, a, rule) ==
    /\ a.reference \in Reference
    /\ a.amount # 0
    /\ LET txn == Txn[a.reference]
       IN  /\ txn.owner = Complaint[c].author
           /\ txn.verified
           /\ txn.amount = a.amount
           /\ txn.reversible
           /\ txn.amount <= rule.ceiling
    /\ \A m \in reversals : m.reference # a.reference

\* Mutant: approving the reply approves the actions.
ApprovedWithReply(r, i) == run[r].state.review.decision = "approve"

Approved(r, i) ==
    LET review == run[r].state.review IN ~review.auto /\ i \in review.approved

\* MockBackend.reverse: the idempotency key is the case and the reference.
Movement(c, a) == [case |-> c, reference |-> a.reference, amount |-> a.amount]

SameKey(c, a) == \E m \in reversals : m.case = c /\ m.reference = a.reference

\* Mutant: the ledger only looks for the idempotency key.
NoConflict(c, a) == FALSE

Conflict(c, a) ==
    /\ ~SameKey(c, a)
    /\ \E m \in reversals : m.reference = a.reference

\* Mutant: the key of a ticket is made of its kind.
KeyByKind(c, a) == <<c, a.kind>>

TicketKey(c, a) == <<c, a.reference>>

\* ESC-02
CallOwed(c, rule) == Complaint[c].mustCall \/ Complaint[c].severity >= rule.voiceMin

\* Mutant: only a failure counts as unfinished.
UnfinishedIfFailed(results) == \E i \in DOMAIN results : results[i] = "failed"

Unfinished(results) == \E i \in DOMAIN results : results[i] # "executed"

\* Mutant: a case that owes a call and has had none is closed as resolved.
ResolvedUncalled(s) ==
    \/ s.voice = "resolved"
    \/ /\ s.review.decision # "reject"
       /\ s.published = "posted"
       /\ ~Unfinished(s.results)

\* close_node: does the case close as resolved?
Resolved(s) ==
    \/ s.voice = "resolved"
    \/ /\ s.review.decision # "reject"
       /\ s.published = "posted"
       /\ ~Unfinished(s.results)
       /\ s.callOwed => s.voice # "none"

-----------------------------------------------------------------------------
Init ==
    /\ thread = [c \in Case |-> NewCase]
    /\ run = [r \in Run |-> Idle]
    /\ reversals = {}
    /\ tickets = {}
    /\ sent = [c \in Case |-> {}]
    /\ submissions = [c \in Case |-> 0]
    /\ posts = [c \in Case |-> 0]
    /\ disturbed = {}
    /\ dropped = {}
    /\ crashes = 0

Stop(r) == run' = [run EXCEPT ![r] = Idle]

\* The node of r ends with state s: the row is saved and the run goes on.
Save(r, s) ==
    /\ thread' = [thread EXCEPT ![run[r].case] = s]
    /\ run' = [run EXCEPT ![r] =
           IF s.next = "end" THEN Idle
           ELSE Working(@.case, s, Nothing)]

\* run_case, from START to the review gate.
Begin(r, c) ==
    /\ run[r].case = None
    /\ thread[c].next = "start"
    /\ LET s == [thread[c] EXCEPT !.next = "review_gate"]
       IN  /\ thread' = [thread EXCEPT ![c] = s]
           /\ run' = [run EXCEPT ![r] = Working(c, s, Nothing)]
    /\ UNCHANGED <<ledger, history>>

\* Mutant: a case that waits for a call is resumed from the gate.
LoadedAtGate(c) ==
    [thread[c] EXCEPT !.next = IF @ = "voice" THEN "review_gate" ELSE @]

\* What a run of the case starts from: the row saved last.
Loaded(c) == thread[c]

\* resume_case, for whatever the case is at: the endpoints do not look.  A run
\* of a case that has ended does nothing.
Resume(r, c, p) ==
    /\ run[r].case = None
    /\ thread[c].next \notin {"start", "end"}
    /\ submissions[c] < MaxSubmissions
    /\ run' = [run EXCEPT ![r] = Working(c, Loaded(c), p)]
    /\ sent' = [sent EXCEPT ![c] = @ \cup {p}]
    /\ submissions' = [submissions EXCEPT ![c] = @ + 1]
    /\ disturbed' = IF Runs(c) = {} THEN disturbed ELSE disturbed \cup {c}
    /\ dropped' = dropped \ {c}
    /\ UNCHANGED <<thread, ledger, posts, crashes>>

Answers(r, kind) == run[r].resume.kind = kind

\* review_gate_node runs from its top on every visit.  An interrupt with no
\* answer, and an answer that is no review, end the run and leave the row.
ReviewGate(r) ==
    /\ At(r, "review_gate")
    /\ LET c == run[r].case
           Decide(review) ==
               Save(r, [run[r].state EXCEPT
                            !.review = review,
                            !.next = IF review.decision = "reject" THEN "act" ELSE "publish"])
       IN  \E rule \in Rules :
              \/ AutoPostAllowed(c, rule) /\ Decide(AutoReview)
              \/ /\ ~AutoPostAllowed(c, rule)
                 /\ Answers(r, "review")
                 /\ Decide(HumanReview(run[r].resume))
              \/ /\ ~AutoPostAllowed(c, rule)
                 /\ ~Answers(r, "review")
                 /\ Stop(r) /\ UNCHANGED thread
    /\ UNCHANGED <<ledger, history>>

\* publish_node up to the answer of post_reply.  The reply is public, or not,
\* whatever the answer; the guardrail may have refused to send it at all.
Post(r) ==
    /\ At(r, "publish")
    /\ run[r].receipt = "no"
    /\ \E receipt \in {"posted", "blocked"}, landed \in BOOLEAN :
        /\ receipt = "posted" => landed
        /\ run' = [run EXCEPT ![r].receipt = receipt, ![r].resume = Nothing]
        /\ posts' = [posts EXCEPT ![run[r].case] = IF landed THEN @ + 1 ELSE @]
    /\ UNCHANGED <<thread, ledger, sent, submissions, disturbed, dropped, crashes>>

PublishEnds(r) ==
    /\ At(r, "publish")
    /\ run[r].receipt # "no"
    /\ Save(r, [run[r].state EXCEPT !.published = run[r].receipt, !.next = "act"])
    /\ UNCHANGED <<ledger, history>>

\* The action act_node is at.
Current(r) == Len(run[r].results) + 1

AtAction(r) ==
    /\ At(r, "act")
    /\ Current(r) \in DOMAIN Plan(run[r].case)

\* Mutant: an action that failed is tried again.
TriesAgain(r, status) ==
    IF status = "failed" THEN [run[r] EXCEPT !.calling = FALSE]
    ELSE [run[r] EXCEPT !.results = Append(@, status), !.calling = FALSE]

\* The action has its outcome.
Outcome(r, status) ==
    [run[r] EXCEPT !.results = Append(@, status), !.calling = FALSE, !.resume = Nothing]

\* act_node up to the call of the tool: the approval and the rules, again.
CheckAction(r) ==
    /\ AtAction(r)
    /\ ~run[r].calling
    /\ LET c == run[r].case
           a == Plan(c)[Current(r)]
           approved == a.kind = "reversal" => Approved(r, Current(r))
       IN  \/ ~approved /\ run' = [run EXCEPT ![r] = Outcome(r, "not_approved")]
           \/ \E rule \in Rules :
                 /\ approved
                 /\ a.kind = "reversal" /\ ~Valid(c, a, rule)
                 /\ run' = [run EXCEPT ![r] = Outcome(r, "blocked")]
           \/ \E rule \in Rules :
                 /\ approved
                 /\ a.kind = "reversal" => Valid(c, a, rule)
                 /\ run' = [run EXCEPT ![r].calling = TRUE, ![r].resume = Nothing]
    /\ UNCHANGED <<thread, ledger, history>>

\* The tool's side of the call, later: the ledger is asked again.
Carry(c, a) ==
    IF a.kind = "ticket"
    THEN /\ tickets' = tickets \cup {TicketKey(c, a)}
         /\ UNCHANGED reversals
    ELSE /\ reversals' = IF SameKey(c, a) THEN reversals
                         ELSE reversals \cup {Movement(c, a)}
         /\ UNCHANGED tickets

\* The call ends.  It fails on a conflict, and may fail with its work done.
CallTool(r) ==
    /\ AtAction(r)
    /\ run[r].calling
    /\ LET c == run[r].case
           a == Plan(c)[Current(r)]
           refused == a.kind = "reversal" /\ Conflict(c, a)
       IN  \/ /\ ~refused
              /\ Carry(c, a)
              /\ \E status \in {"executed", "failed"} :
                    run' = [run EXCEPT ![r] = Outcome(r, status)]
           \/ /\ UNCHANGED ledger
              /\ run' = [run EXCEPT ![r] = Outcome(r, "failed")]
    /\ UNCHANGED <<thread, history>>

ActEnds(r) ==
    /\ At(r, "act")
    /\ ~AtAction(r)
    /\ LET s == run[r].state
       IN  Save(r, [s EXCEPT !.results = run[r].results,
                             !.next = IF s.review.decision = "reject"
                                      THEN "close" ELSE "escalation"])
    /\ UNCHANGED <<ledger, history>>

Escalation(r) ==
    /\ At(r, "escalation")
    /\ \E rule \in Rules :
          Save(r, [run[r].state EXCEPT
                       !.callOwed = CallOwed(run[r].case, rule),
                       !.next = IF CallOwed(run[r].case, rule) THEN "voice" ELSE "close"])
    /\ UNCHANGED <<ledger, history>>

\* voice_node.  A review read as a VoiceOutcome is a call that did not happen.
VoiceCall(r) ==
    /\ At(r, "voice")
    /\ LET End(voice) == Save(r, [run[r].state EXCEPT !.voice = voice, !.next = "close"])
           p == run[r].resume
       IN  \/ /\ Answers(r, "voice")
              /\ End(p.call)
           \/ Answers(r, "review") /\ End("none")
           \/ Answers(r, "nothing") /\ Stop(r) /\ UNCHANGED thread
    /\ UNCHANGED <<ledger, history>>

Close(r) ==
    /\ At(r, "close")
    /\ LET s == run[r].state
       IN  Save(r, [s EXCEPT !.closure = IF Resolved(s) THEN "resolved" ELSE "unresolved",
                             !.next = "end"])
    /\ UNCHANGED <<ledger, history>>

InProgress == {c \in Case : Runs(c) # {}}

\* The server dies and comes back.
Crash ==
    /\ crashes < MaxCrashes
    /\ crashes' = crashes + 1
    /\ run' = [r \in Run |-> Idle]
    /\ disturbed' = disturbed \cup InProgress
    /\ dropped' = dropped \cup InProgress
    /\ UNCHANGED <<thread, ledger, sent, submissions, posts>>

Step(r) ==
    \/ ReviewGate(r) \/ Post(r) \/ PublishEnds(r)
    \/ CheckAction(r) \/ CallTool(r) \/ ActEnds(r)
    \/ Escalation(r) \/ VoiceCall(r) \/ Close(r)

Next ==
    \/ \E r \in Run :
        \/ Step(r)
        \/ \E c \in Case : Begin(r, c) \/ \E p \in Payload(c) : Resume(r, c, p)
    \/ Crash

Spec == Init /\ [][Next]_vars

\* A run that is under way goes on: every tool call ends at its timeout.
FairSpec == Spec /\ \A r \in Run : WF_vars(Step(r))

-----------------------------------------------------------------------------
(* Properties.                                                              *)

Reversals == [case : Case, reference : Reference, amount : Nat]

TypeOK ==
    /\ DOMAIN thread = Case
    /\ \A c \in Case : thread[c] \in CaseState(c)
    /\ DOMAIN run = Run
    /\ \A r \in Run : run[r] # Idle => run[r].case \in Case /\ run[r] \in Work(run[r].case)
    /\ reversals \subseteq Reversals
    /\ tickets \subseteq Case \X (Reference \cup {None})
    /\ DOMAIN sent = Case
    /\ \A c \in Case : sent[c] \subseteq Payload(c)
    /\ submissions \in [Case -> 0 .. MaxSubmissions]
    /\ posts \in [Case -> Nat]
    /\ disturbed \subseteq Case
    /\ dropped \subseteq Case
    /\ crashes \in 0 .. MaxCrashes

\* A person has approved action i of case c.
Consented(c, i) == \E p \in sent[c] : p.kind = "review" /\ i \in p.approved

\* The ledger's facts, which no policy and no reviewer moves.
Theirs(c, ref) ==
    Txn[ref].owner = Complaint[c].author /\ Txn[ref].verified /\ Txn[ref].reversible

Owed ==
    {[case |-> p[1], reference |-> p[2], amount |-> Txn[p[2]].amount] :
        p \in {q \in Case \X Reference : Theirs(q[1], q[2])}}

\* The reversals a person has consented to.
AgreedTo(c, ref) ==
    \E i \in DOMAIN Plan(c) :
        Plan(c)[i].kind = "reversal" /\ Plan(c)[i].reference = ref /\ Consented(c, i)

Consents == {p \in Case \X Reference : AgreedTo(p[1], p[2])}

\* No money moves that a person did not agree to move for that very case, and
\* that is not the author's own, verified and reversible debit to the paisa.
MoneyConsented == \A m \in reversals : m \in Owed /\ <<m.case, m.reference>> \in Consents

\* "The same approved action executed twice -- a retry, a double click, a
\* resumed graph -- is one reversal, not two", and so is one debit that two
\* cases are about.
ReversedOnce == \A m, n \in reversals : m.reference = n.reference => m = n

Promise == INSTANCE MoneyPromise WITH consents <- Consents, moved <- reversals

\* The ledger keeps the promise about money at every step.
KeepsMoneyPromise == Promise!Spec

Rest == {"start", "review_gate", "voice", "end"}

\* "A row, not a process": a case that waits for nobody is in the hands of a
\* run that has what was saved last, unless a crash took it and no request has
\* picked it up since.
NeverStranded ==
    \A c \in Case \ dropped :
        thread[c].next \notin Rest =>
            \E r \in Runs(c) : run[r].state = thread[c]

\* The reply goes out at most once, whatever is sent for the case and however
\* often, as long as two runs of the case never overlap and no crash hits it.
\* With either it may go out again: post_reply is not idempotent.
PostedOnce == \A c \in Case \ disturbed : posts[c] <= 1

Reached(c, i) ==
    LET a == Plan(c)[i]
    IN  IF a.kind = "ticket" THEN TicketKey(c, a) \in tickets ELSE SameKey(c, a)

\* "Resolved means something actually reached the customer": a case closed as
\* resolved by its call had that call reported so; one closed without has its
\* reply out, all its actions in the ledger, and owes no call.
ResolvedIsTrue ==
    \A c \in Case : thread[c].closure = "resolved" =>
        \/ \E p \in sent[c] : p.kind = "voice" /\ p.call = "resolved"
        \/ /\ posts[c] > 0
           /\ \A i \in DOMAIN Plan(c) : Reached(c, i)
           /\ thread[c].callOwed => \E p \in sent[c] : p.kind = "voice" /\ p.call # "none"

\* No reply goes out that nobody has looked at, unless every hard rule passes.
\* That includes a case with money to move, and holds however the policies and
\* the track record change while the case waits.
PostsAreGated ==
    \A c \in Case :
        posts[c] > 0 /\ ~HardRulesPass(c) =>
            \E p \in sent[c] : p.kind = "review" /\ p.decision = "approve"

\* Once people stop sending, every case comes to rest: waiting for a review or
\* for a call, or closed; only a crash leaves one in between.
Settles == \A c \in Case : <>[](c \in dropped \/ (thread[c].next \in Rest /\ Runs(c) = {}))

-----------------------------------------------------------------------------
(* What the code says of itself, and does not do.                           *)

\* graph.py: "A rejected reply is not posted".  Once people have sent something
\* for the case, and all of it rejections, its reply does not go out.
Rejected(c) ==
    /\ sent[c] # {}
    /\ \A p \in sent[c] : p.kind = "review" /\ p.decision = "reject"

RejectionHolds == [][\A c \in Case : posts'[c] > posts[c] => ~Rejected(c)]_vars

\* voice_node: "Suspend until a voice call completes."  A case that owes a call
\* is not closed before the outcome of one was reported.
CallAwaited ==
    \A c \in Case :
        thread[c].next = "end" /\ thread[c].callOwed =>
            \E p \in sent[c] : p.kind = "voice"
=============================================================================
