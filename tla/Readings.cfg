CONSTANTS
    C1 = c1
    C2 = c2
    C3 = c3
    C4 = c4
    Case = {c1, c2, c3, c4}
    Process = {p1, p2}
    Author = {"asha", "ravi", "mina"}
    Topic = {"upi", "kyc"}
    Wording = {"x", "y", "z"}
    Feeds <- SomeFeeds
    Window = 4
    WatchSize = 2
    CrisisSize = 3
    Hour = 1
    Fast = 1
    CampaignSize = 2
    MaxHistory = 2
    Opinion <- SomeOpinions
    MaxCrashes = 1
    None = None
SYMMETRY Processes
SPECIFICATION Spec
INVARIANTS OneVoiceIsNoWave WaveIsSeen ReturningHasReturned
CHECK_DEADLOCK FALSE
