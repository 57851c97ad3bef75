SPECIFICATION DialogSpec
CONSTANTS
    Sales = {p1}
    NoSale = NoSale
    MaxDrops = 0
    MaxLostReplies = 0
INVARIANTS ReasonIsShown
CHECK_DEADLOCK FALSE
