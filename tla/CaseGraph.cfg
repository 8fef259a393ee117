\* One case, requests that overlap, a crash.
CONSTANTS
    Case = {c1}
    Run = {r1, r2}
    Reference = {own}
    First = c1
    Own = own
    Other = None
    None = None
    Txn <- SomeTxn
    Complaint <- ReplyComplaint
    Rules <- ReplyRules
    MaxSubmissions = 2
    MaxCrashes = 1
SPECIFICATION FairSpec
INVARIANTS NeverStranded PostedOnce ResolvedIsTrue
PROPERTIES Settles
CHECK_DEADLOCK FALSE
