SPECIFICATION Spec
CONSTANTS
    Payments = {p1}
    Readers = {t1}
    Calls = {c1}
    Hooks = {h1}
    Notified = {}
    NoPayment = NoPayment
    NoReader = NoReader
    MaxFaults = 0
INVARIANTS DoneIsTransacted
CHECK_DEADLOCK FALSE
