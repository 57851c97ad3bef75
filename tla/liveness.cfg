SPECIFICATION LivenessSpec
CONSTANTS
    Payments = {p1}
    Readers = {t1}
    Calls = {c1}
    Hooks = {h1}
    Notified = {p1}
    NoPayment = NoPayment
    NoReader = NoReader
    MaxFaults = 0
    Requests = {t1, t2, t3, q1}
    Transactions = {t1, t2, t3}
    PoolSize = 2
INVARIANTS StuckIsSaturated
PROPERTIES EveryoneServed CancellationArrives
CHECK_DEADLOCK FALSE
