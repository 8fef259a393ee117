-------------------------------- MODULE Autonomy --------------------------------
(***************************************************************************)
(* How much a capability may do without a person (sanwaad/autonomy.py):    *)
(* the ledger of what people made of its proposals, what it earns by it,   *)
(* where the review gate uses and feeds it (sanwaad/graph/nodes.py), and   *)
(* the retention that takes old rows away (sanwaad/memory.py).             *)
(*                                                                         *)
(* A capability is reply.<category>.  Days are ticks, and a row has an age *)
(* instead of a date.  The shares are percentages.  Nothing rewrites a row *)
(* or asks for the order of the rows: the file is the set of the decisions *)
(* that have theirs on it.                                                 *)
(*                                                                         *)
(* Pruning is a program of its own: it reads the file, and writes back     *)
(* what it kept of what it had read.                                       *)
(***************************************************************************)
EXTENDS Integers, Sequences, FiniteSets

CONSTANTS
    Capability,
    Ceiling,        \* the highest level its tools allow: Capability -> Authority
    WindowDays,     \* window_days
    Cooloff,        \* consequential_cooloff_days
    Retention,      \* of the ledger, in memory.py
    MinDecisions, MinForAutonomous,
    PromoteAt, DemoteAt,
    Enabled,        \* SANWAAD_AUTONOMY
    MaxPending,     \* bound: cases of a capability that wait for a person
    MaxDecisions,   \* bound: decisions of people
    NotPruning

SHADOW == 0
ASSISTED == 1
SUPERVISED == 2
AUTONOMOUS == 3

Authority == SHADOW .. AUTONOMOUS

ASSUME AutonomyAssumption ==
    /\ Ceiling \in [Capability -> Authority]
    /\ WindowDays \in Nat /\ Cooloff \in Nat /\ Cooloff <= WindowDays
    /\ Retention \in Nat /\ WindowDays <= Retention
    /\ MinDecisions \in Nat \ {0} /\ MinForAutonomous \in Nat /\ MinForAutonomous >= MinDecisions
    /\ PromoteAt \in 1 .. 100 /\ DemoteAt \in 0 .. PromoteAt
    /\ Enabled \in BOOLEAN /\ MaxPending \in Nat /\ MaxDecisions \in Nat

VARIABLES
    decided,  \* every decision people made, as the row that is written of it
    ledger,   \* those that are on file, by their places in decided
    pruning,  \* those the pruning program has kept and is about to write
    pending,  \* cases that wait for a person: Capability -> Nat
    lost      \* history: a decision is not on file that would still count

recordVars == <<ledger, pruning, pending, decided, lost>>

\* Older than anything that is looked at.
Ancient == Retention + 1

Row == [capability : Capability, agreed : BOOLEAN, consequential : BOOLEAN, age : 0 .. Ancient]

-----------------------------------------------------------------------------
(* The verdict.                                                             *)

\* Mutant: the whole file counts.
RowsOfAllTime(rows, capability) == {i \in rows : decided[i].capability = capability}

Rows(rows, capability) ==
    {i \in rows : decided[i].capability = capability /\ decided[i].age <= WindowDays}

Agreed(rows) == Cardinality({i \in rows : decided[i].agreed})

RecentBad(rows) ==
    \E i \in rows :
        decided[i].consequential /\ ~decided[i].agreed /\ decided[i].age <= Cooloff

\* By the number of the rows, and a hundred times those that agreed.
ByShare(n, share) ==
    IF share < DemoteAt * n THEN SHADOW
    ELSE IF share < PromoteAt * n \/ n < MinDecisions THEN ASSISTED
    ELSE IF n < MinForAutonomous THEN SUPERVISED
    ELSE AUTONOMOUS

\* Mutant: an average says it all.
EarnedOnAverage(rows) ==
    IF rows = {} THEN ASSISTED ELSE ByShare(Cardinality(rows), 100 * Agreed(rows))

Earned(rows) ==
    IF rows = {} \/ RecentBad(rows) THEN ASSISTED
    ELSE ByShare(Cardinality(rows), 100 * Agreed(rows))

Capped(level, capability) == IF level <= Ceiling[capability] THEN level ELSE Ceiling[capability]

LevelOf(capability) ==
    Capped(IF Enabled THEN Earned(Rows(ledger, capability)) ELSE ASSISTED, capability)

ActsAlone(capability) == LevelOf(capability) >= SUPERVISED

-----------------------------------------------------------------------------
(* The gate.                                                                *)

RecordInit ==
    /\ decided = <<>> /\ ledger = {} /\ pruning = NotPruning
    /\ pending = [c \in Capability |-> 0]
    /\ lost = FALSE

Decided(capability, agreed, rejects) ==
    [capability |-> capability, agreed |-> agreed, consequential |-> rejects, age |-> 0]

\* Approved as it was, edited, or rejected.
Decisions(capability) ==
    {Decided(capability, TRUE, FALSE), Decided(capability, FALSE, FALSE),
     Decided(capability, FALSE, TRUE)}

\* A case of severity 3 comes to the gate: its reply goes out, or it waits.
\* What went out alone leaves no row.
Gate(capability) ==
    /\ ~ActsAlone(capability)
    /\ pending[capability] < MaxPending
    /\ pending' = [pending EXCEPT ![capability] = @ + 1]
    /\ UNCHANGED <<ledger, pruning, decided, lost>>

\* The row is appended, or the disk refuses it and the case goes on.
Record(row) ==
    /\ Len(decided) < MaxDecisions
    /\ decided' = Append(decided, row)
    /\ \/ ledger' = ledger \cup {Len(decided')} /\ UNCHANGED lost
       \/ ledger' = ledger /\ lost' = TRUE

\* A person decides.  The gate runs again from its top, and reads the ledger
\* again: a capability that has been promoted meanwhile acts alone, and the
\* decision is nobody's.
Review(capability) ==
    /\ pending[capability] > 0
    /\ pending' = [pending EXCEPT ![capability] = @ - 1]
    /\ \E row \in Decisions(capability) :
          IF ActsAlone(capability)
          THEN /\ Len(decided) < MaxDecisions
               /\ decided' = Append(decided, row)
               /\ lost' = TRUE /\ UNCHANGED ledger
          ELSE Record(row)
    /\ UNCHANGED pruning

\* A graver case is a person's whatever the ledger says, and feeds it too.
ReviewGrave(capability) ==
    /\ \E row \in Decisions(capability) : Record(row)
    /\ UNCHANGED <<pruning, pending>>

-----------------------------------------------------------------------------
(* Time and retention.                                                      *)

OlderBy1(rows) == [i \in DOMAIN rows |-> [rows[i] EXCEPT !.age = IF @ < Ancient THEN @ + 1 ELSE @]]

Tick ==
    /\ \E i \in DOMAIN decided : decided[i].age < Ancient
    /\ decided' = OlderBy1(decided)
    /\ UNCHANGED <<ledger, pruning, pending, lost>>

Kept(rows) == {i \in rows : decided[i].age <= Retention}

\* A file with nothing to remove is not written.
PruneReads ==
    /\ pruning = NotPruning
    /\ Kept(ledger) # ledger
    /\ pruning' = Kept(ledger)
    /\ UNCHANGED <<ledger, pending, decided, lost>>

\* What was appended since is overwritten.
PruneWrites ==
    /\ pruning # NotPruning
    /\ ledger' = pruning
    /\ lost' = (lost \/ ~ Kept(ledger) \subseteq pruning)
    /\ pruning' = NotPruning
    /\ UNCHANGED <<pending, decided>>

RecordNext ==
    \/ \E c \in Capability : Gate(c) \/ Review(c) \/ ReviewGrave(c)
    \/ Tick \/ PruneReads \/ PruneWrites

RecordSpec == RecordInit /\ [][RecordNext]_recordVars

\* Days go by.
FairSpec == RecordSpec /\ WF_recordVars(Tick)

-----------------------------------------------------------------------------
(* Properties.                                                              *)

RecordTypeOK ==
    /\ decided \in Seq(Row) /\ Len(decided) <= MaxDecisions
    /\ ledger \subseteq DOMAIN decided
    /\ pruning # NotPruning => pruning \subseteq DOMAIN decided
    /\ pending \in [Capability -> 0 .. MaxPending]
    /\ lost \in BOOLEAN

\* The decisions people took on a capability in the last days.
Lately(capability, days) ==
    {i \in DOMAIN decided : decided[i].capability = capability /\ decided[i].age <= days}

\* Who acts alone has been told so often enough, often enough yes, and has had
\* nothing rejected of late: by all that people decided, and not only by what
\* retention has left on file (verdict, prune).  Unless a decision was lost.
AuthorityIsEarned ==
    \A c \in Capability : ActsAlone(c) /\ ~lost =>
        LET lately == Lately(c, WindowDays)
            yes == {i \in lately : decided[i].agreed}
        IN  /\ Cardinality(lately) >= MinDecisions
            /\ LevelOf(c) = AUTONOMOUS => Cardinality(lately) >= MinForAutonomous
            /\ 100 * Cardinality(yes) >= PromoteAt * Cardinality(lately)
            /\ \A i \in Lately(c, Cooloff) : ~decided[i].consequential
            /\ Ceiling[c] >= SUPERVISED

\* A reply that goes out alone is no evidence: when people have stopped
\* deciding, nothing acts alone any more, whatever it had earned (verdict,
\* review_gate_node).
AuthorityFades == <>[](\A c \in Capability : ~ActsAlone(c))

\* "A capability moves up by agreeing with people" (autonomy.py:18): a decision
\* that disagrees with it gives it nothing.
DisagreementNeverPromotes ==
    [][\A c \in Capability :
         /\ Len(decided') > Len(decided)
         /\ decided'[Len(decided')].capability = c /\ ~decided'[Len(decided')].agreed
         /\ ActsAlone(c)'
         => ActsAlone(c)]_recordVars
================================================================================
