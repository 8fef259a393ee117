----------------------------- MODULE MCAdminDesk -----------------------------
(* A watch cluster that must stay below the crisis cluster, and a field that  *)
(* is tied to no other; two people, the first of them the owner of the host.  *)
EXTENDS AdminDesk, TLC

CONSTANTS Watch, Crisis, Severity

SomeLow == Watch :> 2 @@ Crisis :> 3 @@ Severity :> 0
SomeHigh == Watch :> 3 @@ Crisis :> 4 @@ Severity :> 1
SomeDefault == Watch :> 2 @@ Crisis :> 3 @@ Severity :> 0
SomeBelow == {<<Watch, Crisis>>}

\* Requests are told apart by nothing.
Alike == Permutations(Request)
==============================================================================
