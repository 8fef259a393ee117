---------------------------- MODULE ScriptedSupport ----------------------------
(***************************************************************************)
(* The support loop with the policy that drives it when no model can be    *)
(* asked (sanwaad/loop/policy.py), the window that policy reads            *)
(* (sanwaad/loop/window.py), and the workflows of sanwaad/loop/support.py. *)
(*                                                                         *)
(* The policy knows nothing but the rendered view, and a view is the set   *)
(* of signs it looks for in it.  Tokens are not counted: on every pass the *)
(* window may be over its budget by as much as it takes to give up none or *)
(* some of its old steps, its summaries, or the facts, in that order.      *)
(***************************************************************************)
EXTENDS SupportLoop, Sequences, FiniteSets, SequencesExt

CONSTANTS
    LookupTransaction, ReversalStatus, OpenTicket,
    Txn,        \* the reference and the amount of the customer's transaction
    TheClause   \* the clause that states the timeline in question

KEEP_RECENT == 2

\* MINT, from the first rung with tools.
RungLayers(rung) ==
    [tools |-> {LookupTransaction, ReversalStatus, SearchPolicy, OpenTicket},
     verifiers |-> rung >= 2, memory |-> rung >= 3, workflows |-> rung >= 4,
     human_handoff |-> rung >= 5, subagents |-> rung >= 5]

Intent == {"refund_status", "refund_request", "payment_status", "policy_question",
           "manipulation", "other"}

WORKFLOWS ==
    [refund_status |-> [tools |-> {LookupTransaction, ReversalStatus, SearchPolicy, OpenTicket},
                        max_iterations |-> 7],
     refund_request |-> [tools |-> {LookupTransaction, SearchPolicy, OpenTicket},
                         max_iterations |-> 6],
     payment_status |-> [tools |-> {LookupTransaction, OpenTicket}, max_iterations |-> 4],
     policy_question |-> [tools |-> {SearchPolicy}, max_iterations |-> 3],
     manipulation |-> [tools |-> {}, max_iterations |-> 2],
     other |-> [tools |-> {}, max_iterations |-> 2]]

ASSUME ScriptedAssumption ==
    /\ Tool = {LookupTransaction, ReversalStatus, SearchPolicy, OpenTicket}
    /\ OpenTicket \notin {LookupTransaction, ReversalStatus, SearchPolicy}
    /\ LookupTransaction # ReversalStatus
    /\ SearchPolicy \notin {LookupTransaction, ReversalStatus}
    /\ Workflow = {WORKFLOWS[i] : i \in Intent}
    /\ Txn \in Fact /\ TheClause \in Clause

\* What the records say: the transaction that a lookup finds, if any, whether
\* a reversal of it has started, and whether the validator would let one start;
\* what a search retrieves, the best first, whether the snippet of the clause
\* shows its timeline, and whether a clause may not be quoted because it names
\* another one.  Memory recalls nothing, or a turn that opened a ticket and one
\* after it.
World ==
    [kind : {"none", "payment", "pending", "duplicate", "returning", "overdue", "other"},
     reversal : {"no_reversal", "initiated", "credited"},
     valid : BOOLEAN, best : Clause, found : SUBSET Clause,
     stated : BOOLEAN, unsayable : BOOLEAN,
     recalled : BOOLEAN]

VARIABLES
    rung, intent, world, \* who asks what, and how things are: they do not change
    window,              \* the observations, the summary and the facts
    view,                \* what render() gave the policy on this pass
    said,                \* what the last draft says
    gaveUp,              \* history: the most a view had to give up, 0 to 3
    failed,              \* history: a tool failed
    calls                \* history: how often the ledger was asked, and a ticket opened

scriptedVars == <<vars, rung, intent, world, window, view, said, gaveUp, failed, calls>>

memory == rung >= 3

-----------------------------------------------------------------------------
(* The window.  An observation shows its signs; the line that is left of it *)
(* when it is compacted shows some of them.                                 *)

Observation(line, rest, keyed) == [line |-> line, rest |-> rest, keyed |-> keyed]

\* keyed: the facts that come with it, as pairs of a key and signs.
Observed(w, at, o) ==
    LET keys == {f[1] : f \in o.keyed}
    IN  [w EXCEPT !.observations = Append(@, [at |-> at, line |-> o.line,
                                              signs |-> o.line \cup o.rest]),
                  !.facts = IF memory
                            THEN {f \in @ : f.key \notin keys}
                                     \cup {[key |-> f[1], signs |-> f[2], at |-> at] : f \in o.keyed}
                            ELSE @]

\* Mutant: a summary names the step and nothing of what it said.
CompactedToItsName(o) == {}

CompactedLine(o) == o.line

Compacted(w, n) ==
    [w EXCEPT !.observations = SubSeq(@, n + 1, Len(@)),
              !.summary = @ \o [i \in 1 .. n |-> CompactedLine(w.observations[i])]]

\* Facts whose step is still shown are not shown twice.
ShownFacts(w) == {f \in w.facts : \A i \in DOMAIN w.observations : w.observations[i].at # f.at}

\* Summaries that are given up leave only their number, but a single one stays.
SummarySigns(w, all) ==
    IF all \/ Len(w.summary) <= 1 THEN UNION ToSet(w.summary) ELSE {}

Composed(w, allSummaries, facts) ==
    SummarySigns(w, allSummaries)
        \cup UNION ({f.signs : f \in facts}
                       \cup {w.observations[i].signs : i \in DOMAIN w.observations})

OldSteps(w) == IF Len(w.observations) > KEEP_RECENT THEN Len(w.observations) - KEEP_RECENT ELSE 0

Keeps(w, level) ==
    /\ window' = w
    /\ gaveUp' = IF level > gaveUp THEN level ELSE gaveUp

\* What is given up first: old steps, then summaries, then facts.
Render ==
    \/ \E n \in 0 .. OldSteps(window) :
          /\ n > 0 => memory
          /\ Keeps(Compacted(window, n), IF n = 0 THEN 0 ELSE 1)
          /\ view' = Composed(window', TRUE, ShownFacts(window'))
    \/ /\ memory
       /\ Keeps(Compacted(window, OldSteps(window)), 2)
       /\ view' = Composed(window', FALSE, ShownFacts(window'))
    \/ /\ memory
       /\ Keeps(Compacted(window, OldSteps(window)), 3)
       /\ view' = Composed(window', FALSE, {})

-----------------------------------------------------------------------------
(* Reading the view, and what to do next.                                   *)

\* Mutant: the step must be there to count.
LookedUpByStep == "lookup" \in view

LookedUp == "lookup" \in view \/ "txn" \in view

ClauseSeen == "clause" \in view \/ "sub_clause" \in view

\* A clause of a search is read before what a sub-agent said of it.
TimelineSeen == IF "clause" \in view THEN "timeline" \in view ELSE "sub_timeline" \in view

Does(action, args) == [action |-> action, args |-> args, answer |-> None, says |-> "nothing"]

Claims(facts, cites, timeline, blocked) ==
    [facts |-> facts, cites |-> cites, timeline |-> timeline, blocked |-> blocked]

Says(what, claims) == [action |-> "final", args |-> {}, answer |-> claims, says |-> what]

Plainly(what) == Says(what, Claims({}, {}, FALSE, FALSE))

OfTxn(what) == Says(what, Claims({Txn}, {}, FALSE, FALSE))

\* A ticket is opened once, and the customer is told.
TicketFirst(what) ==
    IF OpenTicket \in config.tools /\ "ticket" \notin view THEN Does(OpenTicket, {})
    ELSE Plainly(what)

\* Mutant: the sub-agent is asked whenever there is one.
DelegatesAgain(otherwise) ==
    IF config.subagents THEN Does("consult_policy", {})
    ELSE IF SearchPolicy \in config.tools /\ "search" \notin view THEN Does(SearchPolicy, {})
    ELSE otherwise

\* The policy is asked of the sub-agent, once, and searched, once.
AsksPolicy(otherwise) ==
    IF config.subagents /\ "consulted" \notin view THEN Does("consult_policy", {})
    ELSE IF SearchPolicy \in config.tools /\ "search" \notin view THEN Does(SearchPolicy, {})
    ELSE otherwise

\* Quoted from a clause; it may happen to be one that states a time.
PolicyAnswer ==
    IF {"clause", "sub_clause"} \cap view # {}
    THEN Says("clause", Claims({}, {TheClause}, world.stated, world.unsayable))
    ELSE IF {"other_clause", "sub_other"} \cap view # {}
    THEN Says("clause", Claims({}, Clause \ {TheClause}, FALSE, world.unsayable))
    ELSE AsksPolicy(Plainly("will_check"))

\* The eager first draft states the time it remembers, which is wrong.
WithTimeline ==
    IF ClauseSeen /\ TimelineSeen THEN Says("timeline", Claims({Txn}, {TheClause}, TRUE, FALSE))
    ELSE IF ClauseSeen THEN OfTxn("will_confirm")
    ELSE IF "rejected" \in view THEN AsksPolicy(OfTxn("will_confirm"))
    ELSE Says("remembered", Claims({Txn}, {}, TRUE, FALSE))

ProposeFix ==
    IF "refused" \in view
    THEN IF config.human_handoff THEN Does("handoff", {}) ELSE OfTxn("cannot_start")
    ELSE IF "no_handoff" \in view THEN OfTxn("qualifies")
    ELSE Does("propose_reversal", {Txn})

DuplicateDebit ==
    CASE {"initiated", "credited", "no_reversal"} \cap view = {}
            /\ ReversalStatus \in config.tools -> Does(ReversalStatus, {Txn})
      [] "credited" \in view -> OfTxn("completed")
      [] "initiated" \in view -> WithTimeline
      [] OTHER -> ProposeFix

AboutTxn ==
    CASE world.kind = "pending" -> OfTxn("pending")
      [] world.kind = "payment" -> OfTxn("went_through")
      [] world.kind = "duplicate" -> DuplicateDebit
      [] world.kind = "returning" -> WithTimeline
      [] world.kind = "overdue" -> ProposeFix
      [] OTHER -> OfTxn("will_look")

\* Anything about money starts with the ledger.
AboutMoney ==
    CASE "lookup_failed" \in view /\ "txn" \notin view -> TicketFirst("could_not_check")
      [] "lookup_failed" \notin view /\ ~LookedUp ->
            IF LookupTransaction \in config.tools THEN Does(LookupTransaction, {})
            ELSE Plainly("cannot_see")
      [] "txn" \in view -> AboutTxn
      [] OTHER -> TicketFirst("not_found")

ScriptedChoice ==
    CASE intent \in {"manipulation", "other"} -> Plainly("asks")
      [] intent = "policy_question" -> PolicyAnswer
      [] OTHER -> AboutMoney

-----------------------------------------------------------------------------
(* The loop with this policy.                                               *)

\* A note of memory says how an earlier turn ended, and which ticket is open.
NewWindow ==
    LET note(signs) == [at |-> 0, line |-> signs, signs |-> signs]
    IN  [observations |-> IF world.recalled THEN <<note({"ticket"}), note({})>> ELSE <<>>,
         summary |-> <<>>, facts |-> {}]

\* What does not matter to a kind of transaction is left as it is.
Sensible(w) ==
    /\ w.kind # "duplicate" => w.reversal = "no_reversal"
    /\ w.kind \notin {"duplicate", "overdue"} => w.valid
    /\ intent \in {"manipulation", "other", "policy_question"} => w.kind = "none"
    /\ intent # "policy_question" => ~w.unsayable
    /\ w.best \in w.found
    /\ w.recalled => memory
    /\ TheClause \notin w.found => ~w.stated
    /\ intent # "policy_question" /\ w.kind # "returning" /\ w.reversal # "initiated" =>
          w.found = {TheClause} /\ w.stated

ScriptedInit ==
    /\ rung \in 1 .. 5 /\ intent \in Intent
    /\ world \in World /\ Sensible(world)
    /\ Init
    /\ config = Narrowed(RungLayers(rung), WORKFLOWS[intent])
    /\ seen = {} /\ (sensitive => config.human_handoff)
    /\ window = NewWindow
    /\ view = {} /\ said = "nothing" /\ gaveUp = 0 /\ failed = FALSE /\ calls = [t \in {LookupTransaction, OpenTicket} |-> 0]

Fixed == UNCHANGED <<rung, intent, world>>

Observes1(o) == window' = Observed(window, meter.iterations, o)

ScriptedBegin == Begin /\ Fixed /\ UNCHANGED <<window, view, said, gaveUp, failed, calls>>

ScriptedAsk ==
    /\ Ask
    /\ IF phase' = "deciding" THEN Render ELSE UNCHANGED <<window, view, gaveUp>>
    /\ Fixed /\ UNCHANGED <<said, failed, calls>>

\* What a final, or a proposal, leaves in the window.
Noticed(d) ==
    CASE d.action = "final" /\ phase' = "ready" ->
            Observation(IF CheckTimelinesCited(d.answer) THEN {} ELSE {"rejected"}, {}, {})
      [] d.action = "propose_reversal" /\ phase' = "ready" ->
            LET sign == IF world.valid THEN {"no_handoff"} ELSE {"refused"}
            IN  Observation(sign, {}, {<<"proposal", sign>>})

ScriptedDecide ==
    /\ phase = "deciding"
    /\ LET choice == ScriptedChoice
           d == [action |-> choice.action, args |-> choice.args, answer |-> choice.answer]
       IN  /\ Decides(d, AfterPass(meter, d, 1, 0))
           /\ d.action = "propose_reversal" =>
                 stop' # "error" /\ validated' = world.valid /\ seen' = seen /\ quoted' = quoted
           /\ window' = IF phase' = "ready"
                        THEN Observed(window, meter'.iterations, Noticed(d))
                        ELSE window
           /\ said' = choice.says
           /\ calls' = IF phase' = "calling" /\ d.action \in DOMAIN calls
                       THEN [calls EXCEPT ![d.action] = @ + 1] ELSE calls
    /\ UNCHANGED <<config, sensitive>> /\ Fixed /\ UNCHANGED <<view, gaveUp, failed>>

ToolFailed(tool, signs) ==
    /\ Observes1(Observation(signs, {}, {<<"error" \o ToString(tool), signs>>}))
    /\ failed' = TRUE
    /\ seen' = seen /\ clauses' = clauses

LookedUpTxn ==
    IF world.kind = "none"
    THEN /\ Observes1(Observation({"lookup"}, {}, {<<"txn", {"lookup"}>>}))
         /\ seen' = seen
    ELSE /\ Observes1(Observation({"lookup", "txn"}, {}, {<<"txn", {"txn"}>>}))
         /\ seen' = seen \cup {Txn}

FoundClause(c) ==
    IF c # TheClause THEN {"other_clause"}
    ELSE IF world.stated THEN {"clause", "timeline"} ELSE {"clause"}

\* The best clause is in the line, its text beyond it.
Found ==
    Observation(
        {"search", IF world.best = TheClause THEN "clause" ELSE "other_clause"},
        UNION {FoundClause(c) : c \in world.found},
        {<<IF c = TheClause THEN "clause" ELSE "other", FoundClause(c)>> : c \in world.found})

ScriptedCalled ==
    /\ Called
    /\ LET tool == meter.last[1]
       IN  \/ ToolFailed(tool, CASE tool = LookupTransaction -> {"lookup", "lookup_failed"}
                                 [] tool = SearchPolicy -> {"search"}
                                 [] OTHER -> {})
           \/ /\ UNCHANGED failed
              /\ \/ tool = LookupTransaction /\ LookedUpTxn /\ clauses' = clauses
                 \/ /\ tool = ReversalStatus
                    /\ Observes1(Observation({world.reversal}, {}, {<<"reversal", {world.reversal}>>}))
                    /\ seen' = seen /\ clauses' = clauses
                 \/ /\ tool = SearchPolicy
                    /\ clauses' = clauses \cup world.found /\ Observes1(Found)
                    /\ seen' = seen
                 \/ /\ tool = OpenTicket
                    /\ Observes1(Observation({"ticket"}, {}, {<<"ticket", {"ticket"}>>}))
                    /\ seen' = seen /\ clauses' = clauses
    /\ Fixed /\ UNCHANGED <<view, said, gaveUp, calls>>

\* The answer is the first sentence of the best clause, and names no clause
\* only if the sub-agent's own search failed.
Consults(cited) ==
    \E told \in BOOLEAN :
        /\ told => TheClause \in cited /\ world.stated
        /\ Observes1(Observation(
               {"consulted"} \cup (IF TheClause \in cited THEN {"sub_clause"} ELSE {})
                             \cup (IF cited \ {TheClause} # {} THEN {"sub_other"} ELSE {}),
               IF told THEN {"sub_timeline"} ELSE {},
               {<<IF c = TheClause THEN "clause" ELSE "other", {"consulted"}>> : c \in cited}))

ScriptedConsulted ==
    /\ Consulted
    /\ \E cited \in {{}, {world.best}} :
          /\ clauses' = clauses \cup cited /\ Consults(cited)
          /\ failed' = (failed \/ cited = {})
    /\ seen' = seen
    /\ Fixed /\ UNCHANGED <<view, said, gaveUp, calls>>

ScriptedNext ==
    ScriptedBegin \/ ScriptedAsk \/ ScriptedDecide \/ ScriptedCalled \/ ScriptedConsulted

ScriptedSpec == ScriptedInit /\ [][ScriptedNext]_scriptedVars

-----------------------------------------------------------------------------
(* Properties.                                                              *)

\* The scripted policy always brings its loop to a clean stop, in the passes its
\* workflow grants, whatever the window has to compact (decide, render): unless
\* summaries had to be given up, a tool failed, or the clause cannot be quoted.
EndsClean ==
    phase = "ended" /\ gaveUp < 2 /\ ~failed /\ ~world.unsayable =>
        stop \in {"done", "needs_human"}

\* "A remembered transaction counts as looked up even after the step that found
\* it has been compacted away" (policy.py:146-147): the ledger is asked once.
LooksUpOnce == gaveUp < 3 => calls[LookupTransaction] <= 1

\* "So a returning customer ... doesn't get a second ticket" (support.py:14-17),
\* as long as what memory recalled is still summed up in the window.
NoSecondTicket ==
    world.recalled /\ gaveUp < 2 => calls[OpenTicket] = 0

\* The time a customer is told is never the one the policy remembers, whatever
\* was retrieved meanwhile (WithTimeline, check_timelines_cited).
TimelinesAreThePolicys ==
    config.verifiers /\ answer # None => said # "remembered"
==============================================================================
