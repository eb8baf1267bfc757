SPECIFICATION Spec
CONSTANTS
    Reqs = {r1,r2}
    MaxSubscriptions = 1
    StartDelays = {0,1}
    LastTick = 2
    MaxRows = 1
    MaxPayments = 2
    MaxFailures = 1
INVARIANTS
    JobBillsOnce
    BilledWithinTerm
PROPERTIES
    PaymentsHold
    UnpaidGoesOverdue
