SPECIFICATION AccountsSpec
CONSTANTS
    Users = {u1}
    Requests = {r1, r2}
    Amounts = {1}
    Calls = {c1, c2}
    NoRequest = none
    MaxFunds = 1
    MaxFaults = 1
    WriteOffs = {r1, r2}
    Closers = {c1, c2}
    NoWriteOff = none
    MaxWorth = 1
    MaxClosingFaults = 1
    Costs = {r1, r2}
    Officers = {c1, c2}
    NoCost = none
    CostValue = 2
    MaxPurse = 2
    MaxOfficerFaults = 1
    Tills = {c1, c2}
    Totals = {1, 2}
    MaxEntries = 3
    MaxTillFaults = 1
SYMMETRY Symmetry
CONSTRAINT Bound
INVARIANTS
    AccountsTypeOK
    DecidedOnce PaidAsApproved
    DeletedIsSettled
    NoticeFollowsActivity
    DebtIsExplained PurchaseSurvives
PROPERTIES
    PayoutWithinBalance
    DeletedStaysDeleted WriteOffSettles
CHECK_DEADLOCK FALSE
