SPECIFICATION ShopSpec
CONSTANTS
    Users = {u1}
    Amounts = {a1, a2}
    Calls = {c1, c2}
    NoRow = none
    NoDate = NoDate
    MaxTransactions = 2
    MaxTransfers = 1
    MaxNow = 3
    Products = {a1, a2}
    Containers = {k1}
    PointsOfSale = {s1}
    Prices = {low, high}
    Editors = {c1, c2}
    Nothing = none
    MaxEdits = 3
    MaxEditorFaults = 1
    Sales = {a1, a2}
    NoSale = none
    MaxDrops = 1
    MaxLostReplies = 1
SYMMETRY Symmetry
CONSTRAINT Bound
INVARIANTS
    ShopTypeOK
    ReadIsTruth
    SaleKeepsItsListing Propagated
    NothingCharged PaidIsShown
PROPERTIES
    RefreshRepairs PriceHistory
CHECK_DEADLOCK FALSE
