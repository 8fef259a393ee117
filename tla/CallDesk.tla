------------------------------- MODULE CallDesk -------------------------------
(***************************************************************************)
(* The two pools (sanwaad/limits.py) and who takes their slots: the offers *)
(* of voice calls (api_offer and _drive of sanwaad/api/server.py) and the  *)
(* runs of cases (run_case and resume_case of sanwaad/pipeline.py).        *)
(*                                                                         *)
(* Everything happens in one event loop: an action is what a task does     *)
(* between two awaits.                                                     *)
(***************************************************************************)
EXTENDS Integers, FiniteSets, Sequences, Functions

CONSTANTS
    Case,
    Offer,        \* tasks of api_offer, with the _drive each may start
    Job,          \* tasks of the other requests that run a case
    CallLimit,    \* MAX_CONCURRENT_CALLS
    CaseLimit,    \* MAX_CONCURRENT_CASES
    None

VARIABLES
    row,        \* what a case waits for: "review", "call", or nothing: "ended"
    task,       \* what a task is doing, for which case
    _calls,     \* the call a case is on, or None
    calls,      \* the pool CALLS
    cases,      \* the pool CASES
    crossed     \* history: cases with an offer let through during another's handshake

vars == <<row, task, _calls, calls, cases, crossed>>

Task == Offer \cup Job

ASSUME DeskAssumption ==
    /\ CallLimit \in Nat /\ CaseLimit \in Nat \ {0}
    /\ IsFiniteSet(Offer) /\ IsFiniteSet(Job)
    /\ Offer \cap Job = {}
    /\ None \notin Offer \cup Case

\* "looked": a snapshot of the case says that it waits for a call;
\* "handshake": the slot is taken, the connection is being initialised;
\* "talking": run_voice_call; "queued": in CASES.slot(); "working": in the graph.
Doing == {"idle", "looked", "handshake", "talking", "queued", "working"}

Idle == [at |-> "idle", case |-> None]

-----------------------------------------------------------------------------
(* A pool: the free slots of its semaphore, the tasks that wait for one in  *)
(* the order they came, how many of them were given one and have yet to     *)
(* run, and the count the pool reports.  asyncio lets nobody overtake a     *)
(* waiter, hands a slot that comes back to the first one without, and runs  *)
(* tasks in the order in which they were woken.                             *)

Pool == [free : Nat, waiters : Seq(Task), woken : Nat, running : Nat]

Empty(limit) == [free |-> limit, waiters |-> <<>>, woken |-> 0, running |-> 0]

Locked(p) == p.free = 0 \/ p.waiters # <<>>

\* Mutant: the slot is taken and not counted.
TakenUncounted(p) == [p EXCEPT !.free = @ - 1]

Taken(p) == [p EXCEPT !.free = @ - 1, !.running = @ + 1]

Queued(p, t) == [p EXCEPT !.waiters = Append(@, t)]

Asleep(p) == Len(p.waiters) - p.woken

\* As many waiters as there are free slots are given one, at most k.
Wake(p, k) ==
    LET n == IF k < Asleep(p) THEN k ELSE Asleep(p)
    IN  [p EXCEPT !.free = @ - n, !.woken = @ + n]

\* Mutant: the count goes down and the slot stays taken.
CountedBack(p) == [p EXCEPT !.running = @ - 1]

Released(p) == Wake([p EXCEPT !.free = @ + 1, !.running = @ - 1], 1)

\* The first waiter runs with the slot it was given, and wakes those behind it.
Resumed(p) ==
    Wake([p EXCEPT !.waiters = Tail(@), !.woken = @ - 1, !.running = @ + 1], p.free)

-----------------------------------------------------------------------------
Init ==
    /\ row = [c \in Case |-> "review"]
    /\ task = [t \in Task |-> Idle]
    /\ _calls = [c \in Case |-> None]
    /\ calls = Empty(CallLimit)
    /\ cases = Empty(CaseLimit)
    /\ crossed = {}

Goes(t, at) == task' = [task EXCEPT ![t].at = at]

\* CASES.slot(): in, or at the end of the queue.
Enter(t, c) ==
    IF Locked(cases)
    THEN /\ cases' = Queued(cases, t)
         /\ task' = [task EXCEPT ![t] = [at |-> "queued", case |-> c]]
    ELSE /\ cases' = Taken(cases)
         /\ task' = [task EXCEPT ![t] = [at |-> "working", case |-> c]]

(* Offers.                                                                  *)

\* get_case() finds that the case waits for a call.  (Otherwise the offer is
\* turned down.)
Look(o, c) ==
    /\ task[o].at = "idle"
    /\ row[c] = "call"
    /\ task' = [task EXCEPT ![o] = [at |-> "looked", case |-> c]]
    /\ UNCHANGED <<row, _calls, calls, cases, crossed>>

\* Mutant: a call may be offered to anybody, as long as there is a slot.
FreeSlot(c) == ~Locked(calls)

Callable(c) == _calls[c] = None /\ ~Locked(calls)

Refuse(o) ==
    /\ task[o].at = "looked"
    /\ ~Callable(task[o].case)
    /\ task' = [task EXCEPT ![o] = Idle]
    /\ UNCHANGED <<row, _calls, calls, cases, crossed>>

OthersShakeHands(o) ==
    \E p \in Offer \ {o} : task[p].at = "handshake" /\ task[p].case = task[o].case

\* acquire_now(), before there is anything to connect to.
Admit(o) ==
    /\ task[o].at = "looked"
    /\ Callable(task[o].case)
    /\ calls' = Taken(calls)
    /\ Goes(o, "handshake")
    /\ crossed' = IF OthersShakeHands(o) THEN crossed \cup {task[o].case} ELSE crossed
    /\ UNCHANGED <<row, _calls, cases>>

\* Mutant: the slot is kept for a call that never began.
SlotKept(p) == p

\* initialize() raises.
SlotBack(p) == Released(p)

HandshakeFails(o) ==
    /\ task[o].at = "handshake"
    /\ calls' = SlotBack(calls)
    /\ task' = [task EXCEPT ![o] = Idle]
    /\ UNCHANGED <<row, _calls, cases, crossed>>

Connect(o) ==
    /\ task[o].at = "handshake"
    /\ _calls' = [_calls EXCEPT ![task[o].case] = o]
    /\ Goes(o, "talking")
    /\ UNCHANGED <<row, calls, cases, crossed>>

\* Mutant: the entry is only removed after a call that went well.
EntryAfterSuccess(o) ==
    IF task[o].at = "working" THEN [_calls EXCEPT ![task[o].case] = None] ELSE _calls

\* _calls.pop(case_id, None), whoever the entry belongs to.
EntryRemoved(o) == [_calls EXCEPT ![task[o].case] = None]

\* The finally clause of _drive.
Ends(o) ==
    /\ _calls' = EntryRemoved(o)
    /\ calls' = Released(calls)
    /\ task' = [task EXCEPT ![o] = Idle]

\* run_voice_call() raises.
CallFails(o) ==
    /\ task[o].at = "talking"
    /\ Ends(o)
    /\ UNCHANGED <<row, cases, crossed>>

\* It returns: somebody hung up, or the cap was reached; resume_case() follows.
HangUp(o) ==
    /\ task[o].at = "talking"
    /\ Enter(o, task[o].case)
    /\ UNCHANGED <<row, _calls, calls, crossed>>

(* Runs of cases.                                                           *)

\* A review, or the outcome of a call somebody reports.
Submit(j, c) ==
    /\ task[j].at = "idle"
    /\ Enter(j, c)
    /\ UNCHANGED <<row, _calls, calls, crossed>>

GetsTurn(t) ==
    /\ cases.woken > 0
    /\ t = Head(cases.waiters)
    /\ cases' = Resumed(cases)
    /\ Goes(t, "working")
    /\ UNCHANGED <<row, _calls, calls, crossed>>

\* What a case may wait for when a run of it has ended: the run may fail, and
\* the outcome of a call is only taken by a case that waits for one.
Afterwards(t, r) ==
    {r} \cup (CASE r = "review" /\ t \in Job -> {"call", "ended"}
                [] r = "call" -> {"ended"}
                [] OTHER -> {})

Finish(t) ==
    /\ task[t].at = "working"
    /\ cases' = Released(cases)
    /\ \E r \in Afterwards(t, row[task[t].case]) : row' = [row EXCEPT ![task[t].case] = r]
    /\ IF t \in Offer THEN Ends(t)
       ELSE task' = [task EXCEPT ![t] = Idle] /\ UNCHANGED <<_calls, calls>>
    /\ UNCHANGED crossed

Progress(o) ==
    Refuse(o) \/ Admit(o) \/ HandshakeFails(o) \/ Connect(o) \/ CallFails(o) \/ HangUp(o)

Next ==
    \/ \E o \in Offer : Progress(o) \/ \E c \in Case : Look(o, c)
    \/ \E j \in Job, c \in Case : Submit(j, c)
    \/ \E t \in Task : GetsTurn(t) \/ Finish(t)

Spec == Init /\ [][Next]_vars

\* A handshake is answered or times out, a call has a hard cap, a step of the
\* graph ends, and the event loop runs whoever can run.
FairSpec ==
    /\ Spec
    /\ \A o \in Offer : WF_vars(Progress(o))
    /\ \A t \in Task : WF_vars(GetsTurn(t)) /\ WF_vars(Finish(t))

-----------------------------------------------------------------------------
(* Properties.                                                              *)

OnCall(o) == task[o].at \in {"talking", "queued", "working"}

HoldsCall(o) == task[o].at = "handshake" \/ OnCall(o)

TypeOK ==
    /\ row \in [Case -> {"review", "call", "ended"}]
    /\ task \in [Task -> [at : Doing, case : Case \cup {None}]]
    /\ \A j \in Job : task[j].at \in {"idle", "queued", "working"}
    /\ \A t \in Task : task[t].at # "idle" => task[t].case \in Case
    /\ _calls \in [Case -> Offer \cup {None}]
    /\ calls \in Pool /\ cases \in Pool
    /\ crossed \subseteq Case

\* "Never hold a slot for a call that never began", and none without a slot:
\* the slots of CALLS are those of the offers between their admission and the
\* end of their call.
CallSlotsBalance ==
    /\ calls.free + Cardinality({o \in Offer : HoldsCall(o)}) = CallLimit
    /\ calls.running + calls.free = CallLimit
    /\ calls.waiters = <<>> /\ calls.woken = 0

\* The slots of CASES are those of the tasks in the graph and of the waiters
\* that were given one; no slot lies idle while nobody is on the way to it.
CaseSlotsBalance ==
    /\ cases.running = Cardinality({t \in Task : task[t].at = "working"})
    /\ cases.free + cases.running + cases.woken = CaseLimit
    /\ {t \in Task : task[t].at = "queued"} = Range(cases.waiters)
    /\ cases.woken < Len(cases.waiters) => cases.free = 0 \/ cases.woken > 0

\* No missed and no doubled release, in either pool, on any path.
SlotsBalance == CallSlotsBalance /\ CaseSlotsBalance

\* An entry of _calls belongs to a call that is still on: an entry that is left
\* over would refuse its case every further call.
NoGhosts ==
    \A c \in Case : _calls[c] # None => OnCall(_calls[c]) /\ task[_calls[c]].case = c

\* "A case can only be on one call at a time" holds, and _calls knows that
\* call, for every case none of whose offers overlapped in their handshakes.
OneCallUnlessCrossed ==
    \A c \in Case \ crossed, o \in Offer :
        task[o].case = c /\ HoldsCall(o) =>
            /\ OnCall(o) => _calls[c] = o
            /\ \A p \in Offer \ {o} : task[p].case = c => ~HoldsCall(p)

\* Whatever is asked for comes to its end: every call gives its slot back, and
\* everybody who queues for a case gets in, though calls queue for CASES while
\* they hold a slot of CALLS.
Drains == \A t \in Task : task[t].at # "idle" ~> task[t].at = "idle"
=============================================================================
