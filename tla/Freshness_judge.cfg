SPECIFICATION Spec
CONSTANTS
    Ages = {0, 2, 9}
    Dates = {0, 3, 5}
    Start = 3
    MaxTime = 5
    MaxHeaders = 3
    None = None
INVARIANTS
    TypeOK
    ExpiredIsRight
    RequestOnlyTightens
    LoggedExpiryHolds
    DirectivesKept
