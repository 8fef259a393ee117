SPECIFICATION FairSpec
CONSTANTS
    Item = {bad, good}
    Poison = {bad}
    Worker = {w1, w2}
    Listener = Listener
    Operator = Operator
    MaxAttempts = 2
    MaxEvents = 2
    None = None
INVARIANTS NothingEvaporates HandledOnce CostIsBounded
PROPERTIES Settles
CHECK_DEADLOCK FALSE
