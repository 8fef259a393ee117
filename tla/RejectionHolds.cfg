\* One case, one run at a time, nothing crashes.
CONSTANTS
    Case = {c1}
    Run = {r1}
    Reference = {own}
    First = c1
    Own = own
    Other = None
    None = None
    Txn <- SomeTxn
    Complaint <- ReplyComplaint
    Rules <- ReplyRules
    MaxSubmissions = 2
    MaxCrashes = 0
SPECIFICATION Spec
CHECK_DEADLOCK FALSE
PROPERTY RejectionHolds
