CONSTANTS
    Caller = {c1, c2}
    None = None
    Threshold = 2
    Window = 2
    Cooldown = 2
    Tools <- SomeTools
SPECIFICATION FairSpec
INVARIANTS ProbeOwned AtMostOnce
PROPERTIES KeepsPromise Recovers
