SPECIFICATION Spec
CONSTANTS
    Users = {u1}
    Requests = {r1, r2}
    Amounts = {1}
    Calls = {c1, c2}
    NoRequest = NoRequest
    MaxFunds = 1
    MaxFaults = 1
PROPERTIES LockedOut
