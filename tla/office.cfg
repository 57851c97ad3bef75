SPECIFICATION OfficeSpec
CONSTANTS
    Groups = {g1, g2}
    FineIds = {f1, f2}
    Waivers = {w1, w2}
    Desks = {d1, d2}
    RefBalances <- MCRefBalances
    FineAmounts = {100}
    None = none
    MinBalance <- MCMinBalance
    MaxBalance = 0
    MaxFineFaults = 1
    Invoices = {g1, g2}
    Rows = {f1, f2}
    Clerks = {d1, d2}
    NoInvoice = none
    InvoiceAmounts = {w1, w2}
    NoAmount = noAmount
    MaxUndone = 2
    Codes = {g1, g2}
    Members = {f1, f2}
    Phones = {d1, d2}
    Nobody = none
    MaxQrFaults = 1
SYMMETRY Symmetry
CONSTRAINT Bound
INVARIANTS
    OfficeTypeOK
    WaivedWithinFines OwedIsCurrent
    RowCreditedOnce UndoMatchesState
    LoginIsConfirmed
PROPERTIES
    CreditClearsFines
CHECK_DEADLOCK FALSE
