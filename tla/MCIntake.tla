-------------------------------- MODULE MCIntake --------------------------------
(* Three texts: a plain complaint, one close to it that names the law, and one *)
(* that reads like instructions; a company of Explore beside this one.         *)
EXTENDS Intake

CONSTANTS Plain, Legal, Orders

Mild == [complaint |-> TRUE, severity |-> 2]
Praise == [complaint |-> FALSE, severity |-> 1]

SomeAnswers == {Mild, Praise}

Keywords == [t \in Text |-> IF t = Legal THEN [complaint |-> TRUE, severity |-> 5] ELSE Mild]

Alike == {<<t, t>> : t \in Text} \cup {<<Plain, Legal>>, <<Legal, Plain>>}
=================================================================================
