------------------------------ MODULE MCCaseGraph ------------------------------
(***************************************************************************)
(* Two cases of one author about one debit, each with its reversal among   *)
(* the actions, the second with the reversal of another customer's debit   *)
(* too; and, for the gate and the calls, a case with a ticket only.        *)
(***************************************************************************)
EXTENDS CaseGraph

Debit(owner, verified) ==
    [owner |-> owner, verified |-> verified, amount |-> 6, reversible |-> TRUE]

Reversal(ref) == [kind |-> "reversal", reference |-> ref, amount |-> 6]
Ticket == [kind |-> "ticket", reference |-> None, amount |-> 0]

Found(severity, clean, actions) ==
    [author |-> "asha", severity |-> severity, clean |-> clean, mustCall |-> FALSE,
     actions |-> actions]

CONSTANTS
    First,   \* one of the cases
    Own,     \* the reference of the author's own debit
    Other    \* the reference of somebody else's, if there is one

SomeTxn == [ref \in Reference |-> Debit(IF ref = Own THEN "asha" ELSE "ravi", TRUE)]

MoneyComplaint ==
    [c \in Case |->
        Found(3, TRUE, IF c = First THEN <<Reversal(Own)>>
                       ELSE <<Reversal(Own), Reversal(Other)>>)]

\* Rules under which nobody is called.
MoneyRules ==
    {[autoMax |-> 2, voiceMin |-> 5, ceiling |-> 10, earned |-> FALSE],
     [autoMax |-> 2, voiceMin |-> 5, ceiling |-> 5, earned |-> TRUE]}

ReplyComplaint == [c \in Case |-> Found(3, TRUE, <<Ticket>>)]

ReplyRules ==
    {[autoMax |-> 2, voiceMin |-> 4, ceiling |-> 10, earned |-> FALSE],
     [autoMax |-> 2, voiceMin |-> 3, ceiling |-> 10, earned |-> TRUE]}
================================================================================
