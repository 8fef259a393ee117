------------------------------ MODULE MoneyPromise ------------------------------
(***************************************************************************)
(* What the pipeline promises about money, whatever its cases, runs and    *)
(* crashes do: a debit is reversed only for a case whose author it belongs *)
(* to, only after a person has consented to that reversal for that case,   *)
(* and once.                                                               *)
(***************************************************************************)
CONSTANTS Owed   \* the movements the ledger's facts allow, as records with
                 \* the fields case, reference and amount

VARIABLES consents,   \* the <<case, reference>> pairs a person has agreed to
          moved       \* the movements that were made

vars == <<consents, moved>>

Init == consents = {} /\ moved = {}

\* A person consents to more; consent is never taken back.
Consent ==
    /\ consents \subseteq consents'
    /\ UNCHANGED moved

Move(m) ==
    /\ m \in Owed
    /\ <<m.case, m.reference>> \in consents
    /\ \A other \in moved : other.reference # m.reference
    /\ moved' = moved \cup {m}
    /\ UNCHANGED consents

Next == Consent \/ \E m \in Owed : Move(m)

Spec == Init /\ [][Next]_vars
=================================================================================
