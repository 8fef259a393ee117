CONSTANTS
    Watch = watch
    Crisis = crisis
    Severity = severity
    Field = {watch, crisis, severity}
    Low <- SomeLow
    High <- SomeHigh
    Default <- SomeDefault
    Below <- SomeBelow
    MaxLines = 4
    MaxCrashes = 2
    Person = {owner, second}
    Owner = owner
    Nobody = Nobody
    Request = {r1, r2}
    MaxFailures = 1
    MaxMoves = 5
    MaxEffort = 5
SYMMETRY Alike
SPECIFICATION DeskSpec
INVARIANTS AlwaysLegal RecordedOrDefault FreeFieldsSurvive RevokedStayOut
PROPERTY AnAdminRemains
CHECK_DEADLOCK FALSE
