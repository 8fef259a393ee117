CONSTANTS
    LookupTransaction = lookup_transaction
    ReversalStatus = reversal_status
    SearchPolicy = search_policy
    OpenTicket = open_ticket
    Tool = {lookup_transaction, reversal_status, search_policy, open_ticket}
    TheClause = rfd
    Clause = {rfd, bil}
    Txn = txn
    Fact = {txn}
    Workflow <- AllWorkflows
    MaxIterations = 8
    MaxSpend = 100
    MaxSeconds = 1
    MaxVerifierRetries = 2
    StallRepeats = 3
    MaxCharge = 1
    MaxWait = 0
    None = None
SPECIFICATION ScriptedSpec
INVARIANTS EndsClean NoSecondTicket TimelinesAreThePolicys
CHECK_DEADLOCK FALSE
