SPECIFICATION Spec
CONSTANTS
    Users = {u1}
    Amounts = {a1, a2}
    Calls = {c1}
    NoRow = NoRow
    NoDate = NoDate
    MaxTransactions = 1
    MaxTransfers = 2
    MaxNow = 3
PROPERTIES ChangesShow
