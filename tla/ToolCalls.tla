------------------------------ MODULE ToolCalls ------------------------------
(***************************************************************************)
(* One tool of the registry behind its circuit breaker                     *)
(* (sanwaad/tools/registry.py, sanwaad/tools/breaker.py), called by many   *)
(* tasks of one event loop.  A task runs without interruption between two  *)
(* awaits, and the only await of ToolRegistry._call is the handler under   *)
(* asyncio.wait_for: an action is everything from one await to the next.   *)
(* The breaker keeps one state per tool and nothing else is shared between *)
(* tools, so one tool is the whole story.                                  *)
(*                                                                         *)
(* Time is counted in ticks and kept as ages, so that the state space is   *)
(* finite without a bound on the clock.                                    *)
(***************************************************************************)
EXTENDS Integers, Functions

CONSTANTS
    Caller,          \* tasks that may have a call of the tool in flight
    Threshold,       \* BreakerPolicy.threshold
    Window,          \* BreakerPolicy.window_s, in ticks
    Cooldown,        \* BreakerPolicy.cooldown_s, in ticks
    Tools,           \* the ToolSpecs the tool may have been registered with
    None             \* no caller

\* What of a ToolSpec decides how it is called; the timeout is in ticks.
ToolSpec ==
    [risk : {"read", "write_low", "write_high"}, timeout : Nat, retries : Nat,
     idempotent : BOOLEAN, autoApprovable : BOOLEAN]

ASSUME ToolAssumption ==
    /\ Threshold \in Nat \ {0}
    /\ Window \in Nat \ {0}
    /\ Cooldown \in Nat \ {0}
    /\ Tools \subseteq ToolSpec
    /\ None \notin Caller

\* True of tools/builtin.py under the default policy: 3 to 15 s against 30 s.
ShortTimeouts == \A t \in Tools : t.timeout < Cooldown

VARIABLES
    tool,      \* the ToolSpec, fixed from registration on
    breaker,   \* the _State of this tool
    call,      \* the _call each caller is in, or was last in
    up,        \* is the backend answering every request?
    prober     \* history: the caller last granted the half-open probe

vars == <<tool, breaker, call, up, prober>>

-----------------------------------------------------------------------------
(* The circuit breaker, as functions on its state.                          *)

Age == 0 .. Window - 1

\* failures[a] counts the failures recorded a ticks ago.  A failure that has
\* aged out of the window is one record_failure would prune before counting.
BreakerState ==
    [opened : BOOLEAN, age : 0 .. Cooldown, probing : BOOLEAN,
     failures : [Age -> Nat]]

FreshState ==
    [opened |-> FALSE, age |-> 0, probing |-> FALSE,
     failures |-> [a \in Age |-> 0]]

State(b) ==
    IF ~b.opened THEN "closed"
    ELSE IF b.age < Cooldown THEN "open" ELSE "half_open"

\* Mutant: allows() forgets that the probe is out.
AllowedAnyProbe(b) == State(b) # "open"

Allowed(b) ==
    \/ State(b) = "closed"
    \/ State(b) = "half_open" /\ ~b.probing

\* What allows() leaves behind: in half-open the probe is now spent.
Asked(b) == [b EXCEPT !.probing = @ \/ State(b) = "half_open"]

RecordSuccess(b) ==
    IF b.opened THEN FreshState ELSE [b EXCEPT !.probing = FALSE]

\* Mutant: a failed probe starts the cooldown again but stays spent.
FailureKeepsProbe(b) ==
    IF b.opened THEN [b EXCEPT !.age = 0]
    ELSE LET counted == [b.failures EXCEPT ![0] = @ + 1]
         IN  [b EXCEPT !.failures = counted,
                       !.opened = SumFunction(counted) >= Threshold]

RecordFailure(b) ==
    IF b.opened
    THEN [b EXCEPT !.age = 0, !.probing = FALSE]
    ELSE LET counted == [b.failures EXCEPT ![0] = @ + 1]
         IN  [b EXCEPT !.failures = counted,
                       !.opened = SumFunction(counted) >= Threshold]

Tripping == {"timeout", "upstream"}

RecordOutcome(b, code) ==
    IF code \in Tripping THEN RecordFailure(b) ELSE RecordSuccess(b)

\* Mutant: a call that ends without an outcome keeps the probe.
AbandonKeeps(b) == b

\* A call that ends without an outcome gives back the probe it may hold.
Abandon(b) == [b EXCEPT !.probing = FALSE]

\* Mutant: the clock of the cooldown is never read as run out.
OlderForever(b) ==
    [b EXCEPT !.age = IF b.opened THEN @ + 1 ELSE @,
              !.failures = [a \in Age |-> IF a = 0 THEN 0 ELSE @[a - 1]]]

\* A tick of the monotonic clock, seen by the breaker.
Older(b) ==
    [b EXCEPT !.age = IF b.opened /\ @ < Cooldown THEN @ + 1 ELSE @,
              !.failures = [a \in Age |-> IF a = 0 THEN 0 ELSE @[a - 1]]]

-----------------------------------------------------------------------------
(* The registry.                                                            *)

\* What a call brings with it.  An approval is bound to a tool and to the
\* digest of its arguments, and was given by a person or by a policy gate.
Request ==
    [registered : BOOLEAN, permitted : BOOLEAN, wellFormed : BOOLEAN,
     approval : {"none", "other_tool", "other_args", "policy", "human"}]

\* _approval_problem
Approved(r) ==
    \/ r.approval = "human"
    \/ r.approval = "policy" /\ tool.autoApprovable

\* The refusals that come before the breaker is asked, in the order of the code.
Refusal(r) ==
    IF ~r.registered THEN "not_found"
    ELSE IF ~r.permitted THEN "not_permitted"
    ELSE IF ~r.wellFormed THEN "invalid_input"
    ELSE IF tool.risk = "write_high" /\ ~Approved(r) THEN "needs_approval"
    ELSE "none"

\* What a call returns: how its last attempt ended, or why there was none.
Result ==
    {"none", "ok", "invalid_output", "answer", "timeout", "upstream", "cancelled",
     "not_found", "not_permitted", "invalid_input", "needs_approval", "circuit_open"}

\* The verdicts the requests that may come in meet with.
Verdicts == {Refusal(r) : r \in Request}

RetrySafe == tool.risk = "read" \/ tool.idempotent

\* Mutant: max_retries is honoured for every tool.
RetryAnything == 1 + tool.retries

MaxAttempts == 1 + (IF RetrySafe THEN tool.retries ELSE 0)

\* How one attempt can end.  "answer" is a structured refusal of the backend
\* (NOT_FOUND, CONFLICT, INVALID_INPUT), "invalid_output" an answer outside the
\* output contract; whether an error may be retried is the handler's choice,
\* except that a timeout always may.
Outcome ==
    {o \in [code : {"ok", "invalid_output", "answer", "timeout", "upstream"},
            retryable : BOOLEAN,
            landed : BOOLEAN] :   \* did the backend carry the request out?
        /\ o.code \in {"ok", "invalid_output"} => ~o.retryable
        /\ o.code = "timeout" => o.retryable
        /\ o.code = "ok" => o.landed
        /\ o.code = "answer" => ~o.landed}

\* The outcomes of a backend that is well, and of one that may not be.
Possible == {o \in Outcome : up => o.code \notin Tripping}

CallState ==
    [running : BOOLEAN, attempt : 0 .. MaxAttempts, age : 0 .. tool.timeout,
     reported : BOOLEAN, effects : Nat, result : Result]

InFlight(c) == call[c].running

Idle(result, effects) ==
    [running |-> FALSE, attempt |-> 0, age |-> 0, reported |-> FALSE,
     effects |-> effects, result |-> result]

-----------------------------------------------------------------------------
Init ==
    /\ tool \in Tools
    /\ breaker = FreshState
    /\ call = [c \in Caller |-> Idle("none", 0)]
    /\ up \in BOOLEAN
    /\ prober = None

\* A call that is refused, by its contract or by the breaker.  allows() leaves
\* the breaker as it was when it says no.
Refuse(c) ==
    /\ ~InFlight(c)
    /\ \E code \in Verdicts :
        /\ code = "none" => ~Allowed(breaker)
        /\ call' = [call EXCEPT ![c] =
               Idle(IF code = "none" THEN "circuit_open" ELSE code, 0)]
    /\ UNCHANGED <<tool, breaker, up, prober>>

\* A call that gets through: its first attempt goes out.
Start(c) ==
    /\ ~InFlight(c)
    /\ "none" \in Verdicts
    /\ Allowed(breaker)
    /\ breaker' = Asked(breaker)
    /\ call' = [call EXCEPT ![c] =
           [Idle("none", 0) EXCEPT !.running = TRUE, !.attempt = 1]]
    /\ prober' = IF State(breaker) = "half_open" THEN c ELSE prober
    /\ UNCHANGED <<tool, up>>

\* How often the backend has acted on the call, once the attempt ends.  An
\* idempotent tool sends the same key on every attempt.
EffectsAfter(c, landed) ==
    IF ~landed \/ (tool.idempotent /\ call[c].effects > 0)
    THEN call[c].effects ELSE call[c].effects + 1

\* Mutant: a retry does not ask the breaker again.
GoesOnUnasked(c, o) == o.retryable /\ call[c].attempt < MaxAttempts

\* May the loop go on after an error?  The breaker is told and asked again.
GoesOn(c, o) ==
    /\ o.retryable
    /\ Allowed(RecordOutcome(breaker, o.code))
    /\ call[c].attempt < MaxAttempts

\* The breaker is asked again even after the last attempt.
BreakerAfter(o) ==
    LET told == RecordOutcome(breaker, o.code)
    IN  IF o.retryable THEN Asked(told) ELSE told

CallAfter(c, o) ==
    IF GoesOn(c, o)
    THEN [call[c] EXCEPT !.attempt = @ + 1, !.age = 0, !.reported = TRUE,
                         !.effects = EffectsAfter(c, o.landed)]
    ELSE Idle(o.code, EffectsAfter(c, o.landed))

AttemptEnds(c) ==
    /\ InFlight(c)
    /\ \E o \in Possible :
        /\ breaker' = BreakerAfter(o)
        /\ call' = [call EXCEPT ![c] = CallAfter(c, o)]
    /\ UNCHANGED <<tool, up, prober>>

\* The task is cancelled in the await: only the finally clause runs.
Cancel(c) ==
    /\ InFlight(c)
    /\ breaker' = IF call[c].reported THEN breaker ELSE Abandon(breaker)
    /\ \E landed \in BOOLEAN :
        call' = [call EXCEPT ![c] =
                     Idle("cancelled", EffectsAfter(c, landed))]
    /\ UNCHANGED <<tool, up, prober>>

\* clear_faults and an operator's reset forget the breaker's state.
Reset ==
    /\ breaker' = FreshState
    /\ UNCHANGED <<tool, call, up, prober>>

\* One tick of the clock.  An attempt that has used its timeout ends first:
\* wait_for fires before the loop does anything later.
Tick ==
    /\ \A c \in Caller : InFlight(c) => call[c].age < tool.timeout
    /\ breaker' = Older(breaker)
    /\ call' = [c \in Caller |->
                    [call[c] EXCEPT !.age = IF InFlight(c) THEN @ + 1 ELSE @]]
    /\ UNCHANGED <<tool, up, prober>>

\* The backend falls ill or recovers.
Weather ==
    /\ up' = ~up
    /\ UNCHANGED <<tool, breaker, call, prober>>

Next ==
    \/ \E c \in Caller : Refuse(c) \/ Start(c) \/ AttemptEnds(c) \/ Cancel(c)
    \/ Reset
    \/ Tick
    \/ Weather

Spec == Init /\ [][Next]_vars

\* The clock runs and an attempt that can end does, however often a client
\* hangs up first; callers keep coming.
Fairness ==
    /\ WF_vars(Tick)
    /\ \A c \in Caller : SF_vars(AttemptEnds(c))
    /\ \A c \in Caller : WF_vars(Start(c))

FairSpec == Spec /\ Fairness

-----------------------------------------------------------------------------
(* Properties.                                                              *)

TypeOK ==
    /\ tool \in Tools
    /\ breaker \in BreakerState
    /\ call \in [Caller -> CallState]
    /\ up \in BOOLEAN
    /\ prober \in Caller \cup {None}

\* A probe that is out belongs to a call that will still give it back: one in
\* flight whose first outcome is not in yet.  A probe flag without such an
\* owner would keep the tool half-open, and refused, for good.
ProbeOwned ==
    breaker.probing =>
        /\ prober \in Caller
        /\ InFlight(prober)
        /\ ~call[prober].reported

\* A circuit that is closed has no probe out and no cooldown running.
ClosedIsQuiet == ~breaker.opened => ~breaker.probing /\ breaker.age = 0

\* The probe is taken only once the cooldown has run out.
ProbesAfterCooldown == breaker.probing => breaker.age = Cooldown

\* While the circuit is open or half-open, an attempt other than the probe went
\* out before the circuit opened.
OthersAreOlder ==
    breaker.opened =>
        \A c \in Caller : InFlight(c) =>
            \/ call[c].age >= breaker.age
            \/ breaker.probing /\ c = prober

\* The inductive invariants behind ProbeOwned and OneProbe.
ProbeInv == TypeOK /\ ClosedIsQuiet /\ ProbesAfterCooldown /\ ProbeOwned

SingleInv == ProbeInv /\ OthersAreOlder

\* "Exactly one call is allowed through to find out": while the circuit is
\* half-open the backend sees one attempt at a time.  It needs ShortTimeouts.
OneProbe ==
    State(breaker) = "half_open" =>
        \A c, d \in Caller : InFlight(c) /\ InFlight(d) => c = d

\* No attempt, the retries of a call that is under way included, goes out into
\* a circuit that is open.
GoesOut(c) ==
    InFlight(c)' /\ (~InFlight(c) \/ call'[c].attempt # call[c].attempt)

FailsFast ==
    [][\A c \in Caller : GoesOut(c) => State(breaker') # "open"]_vars

\* One call of a write reaches the customer or the ledger at most once, over
\* its attempts and whatever its answers say.
AtMostOnce == tool.risk # "read" => \A c \in Caller : call[c].effects <= 1

\* The inductive invariant behind AtMostOnce: a write that may not be retried
\* has had no effect as long as its one attempt is out.
EffectInv ==
    /\ TypeOK
    /\ \A c \in Caller : InFlight(c) => call[c].attempt >= 1
    /\ tool.risk # "read" =>
          \A c \in Caller :
              /\ call[c].effects <= 1
              /\ InFlight(c) /\ ~tool.idempotent => call[c].effects = 0

\* The circuit recovers by itself: once the backend is well for good, the
\* circuit closes and stays closed, whoever hangs up in the meantime.
Recovers == <>[]up => <>[](State(breaker) = "closed")

\* The breaker keeps its promise: the calls of the registry, seen only by the
\* circuit's phase and by who has an attempt at the backend, behave as
\* CircuitPromise says.
Promise ==
    INSTANCE CircuitPromise
        WITH phase <- State(breaker), out <- {c \in Caller : InFlight(c)}

KeepsPromise == Promise!Spec
=============================================================================
