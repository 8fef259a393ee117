CONSTANTS
    Reply = reply
    Money = money
    Capability = {reply, money}
    Ceiling <- ByTools
    WindowDays = 2
    Cooloff = 1
    Retention = 2
    MinDecisions = 2
    MinForAutonomous = 3
    PromoteAt = 60
    DemoteAt = 50
    Enabled = TRUE
    MaxPending = 1
    MaxDecisions = 3
    NotPruning = NotPruning
SPECIFICATION FairSpec
INVARIANT AuthorityIsEarned
PROPERTY AuthorityFades
CHECK_DEADLOCK FALSE
