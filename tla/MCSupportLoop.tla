---------------------------- MODULE MCSupportLoop ----------------------------
(* A tool of the ledger and the search for clauses; one workflow has both and *)
(* one only the search, with fewer passes.                                    *)
EXTENDS SupportLoop

CONSTANTS Lookup

SomeWorkflows == {[tools |-> {Lookup, SearchPolicy}, max_iterations |-> 3],
                  [tools |-> {SearchPolicy}, max_iterations |-> 2]}
==============================================================================
