--------------------------- MODULE CircuitPromise ---------------------------
(***************************************************************************)
(* What tools/breaker.py promises the rest of the system, without clocks,  *)
(* windows, counters or probe flags: "closed: calls go through; open: calls *)
(* fail fast; half-open: exactly one call is allowed through to find out". *)
(***************************************************************************)
CONSTANT Caller

VARIABLES
    phase,   \* of the circuit
    out      \* the callers with an attempt at the backend

vars == <<phase, out>>

Init == phase = "closed" /\ out = {}

\* A call goes out: freely while closed, alone while half-open, never while open.
Begin(c) ==
    /\ c \notin out
    /\ \/ phase = "closed"
       \/ phase = "half_open" /\ out = {}
    /\ out' = out \cup {c}
    /\ UNCHANGED phase

\* A call comes back, with an answer (closed), with a failure (open, if it was
\* the probe or one too many) or with nothing learnt.
End(c) ==
    /\ c \in out
    /\ out' = out \ {c}
    /\ phase' \in {"closed", "open", phase}

\* A call tries again: only into a circuit that is closed.
Again(c) ==
    /\ c \in out
    /\ phase' = "closed"
    /\ UNCHANGED out

\* The cooldown is over; nothing that was sent before it is still out.
CooledDown ==
    /\ phase = "open"
    /\ out = {}
    /\ phase' = "half_open"
    /\ UNCHANGED out

\* An operator forgets the outage.
Forget == phase' = "closed" /\ UNCHANGED out

Next ==
    \/ \E c \in Caller : Begin(c) \/ End(c) \/ Again(c)
    \/ CooledDown
    \/ Forget

Spec == Init /\ [][Next]_vars
=============================================================================
