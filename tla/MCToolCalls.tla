---------------------------- MODULE MCToolCalls ----------------------------
(* ToolCalls for TLC: the kinds of tool of tools/builtin.py, with timeouts   *)
(* shorter than the cooldown, as theirs are, and room in the window for a    *)
(* failure to age out before the next one.                                   *)
EXTENDS ToolCalls

\* lookup_transaction, initiate_reversal, post_reply.
SomeTools ==
    {[risk |-> "read", timeout |-> 1, retries |-> 1,
      idempotent |-> TRUE, autoApprovable |-> FALSE],
     [risk |-> "write_high", timeout |-> 1, retries |-> 1,
      idempotent |-> TRUE, autoApprovable |-> FALSE],
     [risk |-> "write_high", timeout |-> 1, retries |-> 1,
      idempotent |-> FALSE, autoApprovable |-> TRUE]}
=============================================================================
