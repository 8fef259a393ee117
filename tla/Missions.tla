------------------------------- MODULE Missions -------------------------------
(***************************************************************************)
(* Agents that propose where work goes next, and the code that grants or   *)
(* refuses it (sanwaad/handoff.py), with the one mission that is declared  *)
(* (sanwaad/missions.py).  One piece of work runs alone and a run shares   *)
(* nothing, so all is pure: a run is a fold over its rounds.               *)
(*                                                                         *)
(* Of a payload only its keys matter.                                      *)
(***************************************************************************)
EXTENDS Integers, Sequences, FiniteSets, SequencesExt

Step(agent, expects, handsTo, terminal) ==
    [agent |-> agent, expects |-> expects, hands_to |-> handsTo, terminal |-> terminal]

Mission(entry, steps, maxHops) == [entry |-> entry, steps |-> steps, max_hops |-> maxHops]

Names(m) == {s.agent : s \in ToSet(m.steps)}

StepOf(m, a) == SelectSeq(m.steps, LAMBDA s : s.agent = a)[1]

-----------------------------------------------------------------------------
(* Mission.check()                                                          *)

HandedOn(m, from) == UNION {s.hands_to : s \in {t \in ToSet(m.steps) : t.agent \in from}}

Reachable(m) ==
    FoldLeft(LAMBDA seen, s : seen \cup HandedOn(m, seen), {m.entry}, m.steps)

Workable(m) ==
    /\ Cardinality(Names(m)) = Len(m.steps)
    /\ m.entry \in Names(m)
    /\ \A s \in ToSet(m.steps) :
          s.hands_to \subseteq Names(m) /\ (s.terminal \/ s.hands_to # {})
    /\ Names(m) \subseteq Reachable(m)
    /\ \E s \in ToSet(m.steps) : s.terminal /\ s.agent \in Reachable(m)

-----------------------------------------------------------------------------
(* run_mission()                                                            *)

\* What a handler returns: Done, a Handoff, or something else.
Finish == [kind |-> "done", to |-> "", adds |-> {}]
HandTo(to, adds) == [kind |-> "handoff", to |-> to, adds |-> adds]
Nonsense == [kind |-> "nonsense", to |-> "", adds |-> {}]

\* refusal_for(), in its order; "" if the handoff is granted.
RefusalFor(m, from, to, payload, visited) ==
    CASE to \notin Names(m) -> "unknown"
      [] to \in Names(m) /\ to \notin StepOf(m, from).hands_to -> "undeclared"
      [] to \in StepOf(m, from).hands_to /\ ~(StepOf(m, to).expects \subseteq payload) -> "missing"
      [] OTHER -> IF to \in ToSet(visited) THEN "loop"
                  ELSE IF Len(visited) >= m.max_hops THEN "too far" ELSE ""

Started(m, payload) ==
    [current |-> m.entry, visited |-> <<>>, payload |-> payload, stopped |-> "", why |-> ""]

Stops(run, stopped, why) == [run EXCEPT !.stopped = stopped, !.why = why]

Proposed(m, run, result) ==
    LET merged == run.payload \cup result.adds
        refusal == RefusalFor(m, run.current, result.to, merged, run.visited)
    IN  IF refusal # "" THEN Stops(run, "refused", refusal)
        ELSE [run EXCEPT !.payload = merged, !.current = result.to]

Handled(m, run, result) ==
    CASE result.kind = "done" -> Stops(run, "done", "")
      [] result.kind = "handoff" -> Proposed(m, run, result)
      [] OTHER -> Stops(run, "error", "nonsense")

\* One round of the loop, if the mission has not stopped; a handler is a function
\* of the payload.
Round(m, handlers, run) ==
    IF run.stopped # "" THEN run
    ELSE IF ~(StepOf(m, run.current).expects \subseteq run.payload)
    THEN Stops(run, "refused", "missing")
    ELSE Handled(m, [run EXCEPT !.visited = Append(@, run.current)],
                 handlers[run.current][run.payload])

\* The run after so many rounds.
RunMission(m, handlers, payload, rounds) ==
    FoldLeft(LAMBDA run, n : Round(m, handlers, run), Started(m, payload), [n \in 1 .. rounds |-> n])

-----------------------------------------------------------------------------
(* The lead pipeline.                                                       *)

LeadPipeline ==
    Mission("qualify",
            <<Step("qualify", {"company", "seats"}, {"enrich", "nurture", "disqualified"}, FALSE),
              Step("enrich", {"company"}, {"reach_out", "nurture"}, FALSE),
              Step("reach_out", {"company", "contact"}, {"booked", "nurture"}, FALSE),
              Step("nurture", {}, {}, TRUE),
              Step("booked", {}, {}, TRUE),
              Step("disqualified", {}, {}, TRUE)>>, 8)

\* A lead: its size, whether it came with a contact, whether the directory has one.
Lead == [size : {"small", "big", "hot"}, contact : BOOLEAN, listed : BOOLEAN]

LeadKeys == {"company", "seats", "contact", "priority"}

LeadPayload(lead) == {"company", "seats"} \cup (IF lead.contact THEN {"contact"} ELSE {})

Qualify(lead, payload) ==
    CASE lead.size = "small" -> Finish
      [] lead.size # "small" /\ "contact" \notin payload -> HandTo("enrich", {"priority"})
      [] OTHER -> HandTo("reach_out", {"priority"})

Enrich(lead) == IF lead.listed THEN HandTo("reach_out", {"contact"}) ELSE HandTo("nurture", {})

ReachOut(lead) == IF lead.size = "hot" THEN Finish ELSE HandTo("nurture", {})

LeadHandlers(lead) ==
    [agent \in Names(LeadPipeline) |->
        [payload \in SUBSET LeadKeys |->
            CASE agent = "qualify" -> Qualify(lead, payload)
              [] agent = "enrich" -> Enrich(lead)
              [] agent = "reach_out" -> ReachOut(lead)
              [] OTHER -> Finish]]

LeadRun(lead) ==
    RunMission(LeadPipeline, LeadHandlers(lead), LeadPayload(lead), LeadPipeline.max_hops)
================================================================================
