------------------------------- MODULE MCAutonomy -------------------------------
(***************************************************************************)
(* Autonomy for TLC: replies, which may earn anything, and a capability    *)
(* whose tools move money.  And what Missions computes for every small     *)
(* mission and for the lead pipeline.                                      *)
(***************************************************************************)
EXTENDS Autonomy, Missions

CONSTANTS Reply, Money

ByTools == [c \in Capability |-> IF c = Money THEN ASSISTED ELSE AUTONOMOUS]

-----------------------------------------------------------------------------
(* Missions of three agents, the last of which needs a key, and whatever    *)
(* their handlers return.  No agent sees the same work twice (ASSUMEd below *)
(* of every run), so a handler that reads its payload is one of these too.  *)

Agent == {"a", "b", "c"}

\* Every routing table of three agents.
Tables == [Agent -> SUBSET Agent]

Small(table, terminal, hops) ==
    Mission("a", <<Step("a", {}, table["a"], "a" \in terminal),
                   Step("b", {}, table["b"], "b" \in terminal),
                   Step("c", {"key"}, table["c"], "c" \in terminal)>>, hops)

SmallMissions ==
    {m \in {Small(table, terminal, hops) :
                table \in Tables, terminal \in {{"c"}, {"b", "c"}}, hops \in {2, 8}} : Workable(m)}

Answers ==
    {Finish, Nonsense, HandTo("stranger", {}), HandTo("c", {"key"})}
        \cup {HandTo(a, {}) : a \in Agent}

AfterRounds(m, answer, n) ==
    RunMission(m, [a \in Agent |-> [payload \in SUBSET {"key"} |-> answer[a]]], {}, n)

Once(visited) == \A i, j \in DOMAIN visited : visited[i] = visited[j] => i = j

Declared(m, visited) ==
    \A i \in 1 .. Len(visited) - 1 : visited[i + 1] \in StepOf(m, visited[i]).hands_to

\* "Each refusal ends the run with a reason" (handoff.py:30): whatever the agents
\* propose, a mission stops within its hops, follows declared routes only, shows
\* no agent the same work twice, and reaches the agent that needs a key with it.
ASSUME MissionsEnd ==
    \A m \in SmallMissions, answer \in [Agent -> Answers] :
        LET run == AfterRounds(m, answer, m.max_hops)
        IN  /\ run.stopped # ""
            /\ Once(run.visited)
            /\ Declared(m, run.visited)
            /\ "c" \in ToSet(run.visited) => "key" \in run.payload

\* What check() lets through can still be a dead end: an agent that is not
\* terminal, and whose only routes lead to agents that must have been there.
DeadEnd(m) ==
    \E s \in ToSet(m.steps) :
        ~s.terminal /\ s.hands_to \subseteq {s.agent, m.entry}

ASSUME DeadEndsAreLetThrough == \E m \in SmallMissions : DeadEnd(m)

\* The lead pipeline is a workable mission, and every lead that comes without a
\* contact finishes it.  One with a contact, and seats enough, is refused:
\* qualify() hands it to reach_out, which its declaration does not list
\* (missions.py:45 and 87).
Stranded(lead) == LeadRun(lead).stopped # "done"

ASSUME LeadsFinish ==
    /\ Workable(LeadPipeline)
    /\ \A lead \in Lead :
          /\ ~lead.contact => ~Stranded(lead)
          /\ Stranded(lead) <=> lead.contact /\ lead.size # "small"
          /\ Stranded(lead) => LeadRun(lead).why = "undeclared"
=================================================================================
