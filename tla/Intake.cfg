CONSTANTS
    TierTriage = lite
    TierDraft = flash
    TierReasoning = pro
    SchemaRetries = 1
    Budget = 2
    MaxCharge = 1
    None = None
    Plain = plain
    Legal = legal
    Orders = orders
    Text = {plain, legal, orders}
    Regulatory = {legal}
    Injected = {orders}
    Elsewhere = {plain}
    Similar <- Alike
    Answer <- SomeAnswers
    Stub <- Keywords
    Own = nimbus
    Brand = {nimbus, acme}
    MaxEntries = 2
    TTL = 1
    MaxRevisions = 2
    AutoMax = 2
    TicketMin = 3
    MaxTraffic = 1
SPECIFICATION FairSpec
INVARIANTS OnlyVerifiedPosts RegulatoryIsFollowedUp HitsAreAnswers PaidWithinOneCall
PROPERTY IntakeEnds
CHECK_DEADLOCK FALSE
