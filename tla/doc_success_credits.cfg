SPECIFICATION Spec
CONSTANTS
    Intents = {i1}
    Requests = {}
    Hooks = {h1}
    Admins = {}
    Deposit = Deposit
    NoOwner = NoOwner
    MaxFaults = 0
INVARIANTS SuccessAlwaysCredits
CHECK_DEADLOCK FALSE
