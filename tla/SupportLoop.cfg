CONSTANTS
    Lookup = lookup_transaction
    SearchPolicy = search_policy
    Tool = {lookup_transaction, search_policy}
    Clause = {c1}
    Fact = {f1}
    Workflow <- SomeWorkflows
    MaxIterations = 3
    MaxSpend = 3
    MaxSeconds = 2
    MaxVerifierRetries = 1
    StallRepeats = 2
    MaxCharge = 1
    MaxWait = 1
    None = None
SPECIFICATION FairSpec
INVARIANTS DoneMeansVerified PeopleDecide OverBudgetByOnePass
PROPERTY LoopEnds
CHECK_DEADLOCK FALSE
