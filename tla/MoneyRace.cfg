\* Two cases about one debit, each reviewed once, in two runs.
CONSTANTS
    Case = {c1, c2}
    Run = {r1, r2}
    Reference = {own, other}
    First = c1
    Own = own
    Other = other
    None = None
    Txn <- SomeTxn
    Complaint <- MoneyComplaint
    Rules <- MoneyRules
    MaxSubmissions = 1
    MaxCrashes = 1
SPECIFICATION Spec
INVARIANT PostsAreGated
PROPERTY KeepsMoneyPromise
CHECK_DEADLOCK FALSE
