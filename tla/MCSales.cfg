SPECIFICATION Spec
CONSTANTS
    d1 = d1
    k1 = k1
    k2 = k2
    l1 = l1
    l2 = l2
    c1 = c1
    contracts = contracts
    credits = credits
    reminders = reminders
    Deal = {d1}
    Staff = {k1, k2}
    HasEmail = {d1}
    Line = {l1, l2}
    Asked <- Prices
    NoDeal = NoDeal
    MaxTrouble = 1
    Credit = {c1}
    Original <- Credited
    Finance = {k1, k2}
    Montos = {300, 2000}
    NoCredit = NoCredit
    Booked = {b1, b2}
    Worker = {k1, k2}
    MaxRuns = 3
    MaxFailures = 1
INVARIANTS
    ContractsInv
    CreditsInv
    RemindersInv
PROPERTIES
    NothingGoesBack
    ReportsLand
    LoggedIsSent
CHECK_DEADLOCK FALSE
