------------------------------ MODULE PolicyStore ------------------------------
(***************************************************************************)
(* Changing the policies at runtime (sanwaad/policy_store.py): bounded     *)
(* changes of one field at a time, an append-only log of them, reverts,    *)
(* and the replay of the log when the server starts.                       *)
(*                                                                         *)
(* A change is made within one step of the server's event loop; only a     *)
(* crash can cut it short, between its entry in the log and its effect, or *)
(* in the middle of the entry.  The replay is one field after the other.   *)
(***************************************************************************)
EXTENDS Integers, Sequences

CONSTANTS
    Field,        \* the fields of EDITABLE
    Low, High,    \* their Bounds: [Field -> Int]
    Below,        \* pairs of fields, the first of which must stay below the second
    Default,      \* the values the code ships with: [Field -> Int]
    MaxLines,     \* bound: lines of the log
    MaxCrashes    \* bound: crashes of the server

VARIABLES
    server,    \* "down", "starting" or "serving"
    value,     \* the policies in memory; meaningless while the server is down
    todo,      \* the fields replay() has still to restore
    audit,     \* the lines of policy_audit.jsonl
    open,      \* does the last line lack its newline?
    lost,      \* history: fields with a change that was on a line others were
               \* glued to
    crashes    \* history: crashes so far

memory == <<server, value, todo>>
file == <<audit, open, lost>>
vars == <<memory, file, crashes>>

Values == [Field -> Int]

\* A line of the log, or what is left of one: then its fields mean nothing.
Line == [readable : BOOLEAN, field : Field, old : Int, new : Int]

\* Mutant: the entry does not say what the value was.
EntryWithoutOld(f, old, new) == [readable |-> TRUE, field |-> f, new |-> new]

Entry(f, old, new) == [readable |-> TRUE, field |-> f, old |-> old, new |-> new]

\* What a crash in the middle of the entry leaves.
Rest(f, old, new) == [readable |-> FALSE, field |-> f, old |-> old, new |-> new]

-----------------------------------------------------------------------------
(* The rules.                                                               *)

InBounds(f, x) == x \in Low[f] .. High[f]

\* Mutant: a change is only held against its own bounds.
ConsistentAlone(v, f, x) == TRUE

\* _check_consistency: the rules that span two fields, with f set to x.
Consistent(v, f, x) ==
    LET current == [v EXCEPT ![f] = x]
    IN  \A pair \in Below : current[pair[1]] < current[pair[2]]

Valid(v, f, x) == InBounds(f, x) /\ Consistent(v, f, x)

\* A combination of values a running case may meet.
Legal(v) ==
    /\ \A f \in Field : InBounds(f, v[f])
    /\ \A pair \in Below : v[pair[1]] < v[pair[2]]

ASSUME PolicyAssumption ==
    /\ Low \in Values /\ High \in Values /\ Default \in Values
    /\ Below \subseteq Field \X Field
    /\ Legal(Default)
    /\ MaxLines \in Nat /\ MaxCrashes \in Nat

-----------------------------------------------------------------------------
(* The log.                                                                 *)

\* Mutant: a line that cannot be read hides every later one.
ReadableUpTo(n) == \A m \in 1 .. n : audit[m].readable

\* history() passes over a line it cannot read.
Readable(n) == audit[n].readable

Changes(f) == {n \in DOMAIN audit : Readable(n) /\ audit[n].field = f}

\* Mutant: the first change of a field stands.
FirstChange(f) == CHOOSE n \in Changes(f) : \A m \in Changes(f) : n <= m

\* What latest[(policy, field)] holds once replay() has read the log.
LatestChange(f) == CHOOSE n \in Changes(f) : \A m \in Changes(f) : m <= n

\* A dict keeps its keys in the order in which they first came.
ComesFirst(f) ==
    /\ f \in todo
    /\ \A g \in todo : \E n \in Changes(f) : \A m \in Changes(g) : n <= m

\* The log with one more line.  A line that is written after an open one ends
\* up on it, and neither can be read.
Written(line) ==
    IF open THEN [audit EXCEPT ![Len(audit)].readable = FALSE]
    ELSE Append(audit, line)

\* Does line n tell a change of f?
Logged(f, n) == n \in DOMAIN audit /\ audit[n].readable /\ audit[n].field = f

Destroyed(line) ==
    IF open THEN {f \in Field : f = line.field \/ Logged(f, Len(audit))} ELSE {}

HasRoom == Len(audit) < MaxLines

Logs(line) ==
    /\ audit' = Written(line)
    /\ lost' = lost \cup Destroyed(line)

-----------------------------------------------------------------------------
Init ==
    /\ server = "starting"
    /\ value = Default
    /\ todo = {}
    /\ audit = <<>>
    /\ open = FALSE
    /\ lost = {}
    /\ crashes = 0

\* What apply() lets through.
Changeable(f, x) ==
    /\ server = "serving"
    /\ Valid(value, f, x)
    /\ x # value[f]
    /\ HasRoom

\* apply(): the entry, then the effect.
Apply(f, x) ==
    /\ Changeable(f, x)
    /\ Logs(Entry(f, value[f], x))
    /\ open' = FALSE
    /\ value' = [value EXCEPT ![f] = x]
    /\ UNCHANGED <<server, todo, crashes>>

\* revert(): a change that is still in force is undone by one more change.
Revert(n) ==
    /\ n \in DOMAIN audit
    /\ Readable(n)
    /\ value[audit[n].field] = audit[n].new
    /\ Apply(audit[n].field, audit[n].old)

Down ==
    /\ crashes < MaxCrashes
    /\ crashes' = crashes + 1
    /\ server' = "down"
    /\ UNCHANGED <<value, todo>>

Crash ==
    /\ server # "down"
    /\ Down
    /\ UNCHANGED file

\* The server dies in apply(): the entry is in the log as a whole, without its
\* newline, or in part.
CrashInApply(f, x) ==
    /\ Changeable(f, x)
    /\ Down
    /\ \/ Logs(Entry(f, value[f], x)) /\ open' \in BOOLEAN
       \/ Logs(Rest(f, value[f], x)) /\ open' = TRUE

\* A new process has the values the code ships with, and reads the log.
Start ==
    /\ server = "down"
    /\ server' = "starting"
    /\ value' = Default
    /\ todo' = {f \in Field : Changes(f) # {}}
    /\ UNCHANGED <<file, crashes>>

\* The next field of replay(): one whose value is refused keeps its default.
Restore(f) ==
    /\ server = "starting"
    /\ ComesFirst(f)
    /\ todo' = todo \ {f}
    /\ LET x == audit[LatestChange(f)].new
       IN  value' = IF Valid(value, f, x) THEN [value EXCEPT ![f] = x] ELSE value
    /\ UNCHANGED <<server, file, crashes>>

\* The first request is served after replay().
Serve ==
    /\ server = "starting"
    /\ todo = {}
    /\ server' = "serving"
    /\ UNCHANGED <<value, todo, file, crashes>>

Next ==
    \/ \E f \in Field : \E x \in Low[f] .. High[f] : Apply(f, x) \/ CrashInApply(f, x)
    \/ \E n \in DOMAIN audit : Revert(n)
    \/ Crash
    \/ Start
    \/ \E f \in Field : Restore(f)
    \/ Serve

Spec == Init /\ [][Next]_vars

-----------------------------------------------------------------------------
(* Properties.                                                              *)

TypeOK ==
    /\ server \in {"down", "starting", "serving"}
    /\ value \in Values
    /\ todo \subseteq Field
    /\ audit \in Seq(Line)
    /\ open \in BOOLEAN
    /\ lost \subseteq Field
    /\ crashes \in 0 .. MaxCrashes

\* No sequence of changes, reverts, crashes and partial replays puts a
\* combination of values in force that the rules forbid: not even while the
\* log is replayed, and whatever it has in it.
AlwaysLegal == server # "down" => Legal(value)

\* The last change of f that the log can tell.
LastLogged(f, n) == Logged(f, n) /\ \A m \in DOMAIN audit : Logged(f, m) => m <= n

AsLogged(f) ==
    \/ \E n \in DOMAIN audit : LastLogged(f, n) /\ value[f] = audit[n].new
    \/ (\A n \in DOMAIN audit : ~Logged(f, n)) /\ value[f] = Default[f]

\* No rule ties f to another field.
Free(f) == \A pair \in Below : f \notin {pair[1], pair[2]}

\* "No unrecorded change", and "safe defaults for that field": what is in force
\* is the last value the log can tell or the one the code ships with, for every
\* field with no change on a line that was glued to a torn one.
RecordedOrDefault ==
    server = "serving" =>
        \A f \in Field \ lost : AsLogged(f) \/ value[f] = Default[f]

\* A field that no rule ties to another keeps its last change over every
\* restart, whatever else in the log is torn.
FreeFieldsSurvive ==
    server = "serving" => \A f \in Field \ lost : Free(f) => AsLogged(f)

-----------------------------------------------------------------------------
(* What the code says of itself, and does not do.                           *)

\* "On start the server replays it, so changes survive a restart."
ChangesSurvive == server = "serving" => \A f \in Field \ lost : AsLogged(f)
=============================================================================
