SPECIFICATION Spec
CONSTANTS
    Payments = {p1}
    Readers = {t1, t2}
    Calls = {c1, c2}
    Hooks = {h1, h2}
    Notified = {p1}
    NoPayment = NoPayment
    NoReader = NoReader
    MaxFaults = 1
INVARIANTS TypeOK CancelledNeverCharged PaidIsBalanced
PROPERTIES TransactsOnceWhatWasCaptured
SYMMETRY Symmetry
CONSTRAINT Bound
CHECK_DEADLOCK FALSE
