SPECIFICATION FairSpec
CONSTANTS
    Intents = {i1}
    Requests = {}
    Hooks = {h1, h2}
    Admins = {}
    Deposit = Deposit
    NoOwner = NoOwner
    MaxFaults = 1
INVARIANTS CreditedWhenRecorded CapturedHasConsumer LossNeedsDeclineOrFault
PROPERTIES CreditsOnceWhatWasCaptured EventuallyCredited
CHECK_DEADLOCK FALSE
