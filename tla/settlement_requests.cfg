SPECIFICATION Spec
CONSTANTS
    Intents = {i1}
    Requests = {r1}
    Hooks = {h1}
    Admins = {a1, a2}
    Deposit = Deposit
    NoOwner = NoOwner
    MaxFaults = 1
SYMMETRY Symmetry
INVARIANTS PaidHasCredit FulfilledHasTransfer
PROPERTIES NeverReopens
CHECK_DEADLOCK FALSE
