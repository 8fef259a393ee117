--------------------------- MODULE MCScriptedSupport ---------------------------
(* All the workflows, and the budgets, as the program has them. *)
EXTENDS ScriptedSupport

AllWorkflows == {WORKFLOWS[i] : i \in Intent}
================================================================================
