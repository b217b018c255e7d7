SPECIFICATION FairSpec
CONSTANTS
    hall = hall
    room1 = room1
    room2 = room2
    staff = staff
    customer = customer
    r1 = r1
    r2 = r2
    r3 = r3
    None = None
    NoSpace = NoSpace
    Space = {hall, room1, room2}
    Parent <- TwoLevels
    Window <- OneWindow
    Bookable <- AllBookable
    Reservation = {r1, r2}
    Quote = {q1}
    User <- Users
    Customer = {customer}
    UserOf <- Owners
    MaxActive = 1
    File = {f1}
INVARIANTS
    EventCancelsTogether
    AuditErrsOnlyBySweep
    DashboardIsRight
PROPERTIES
    HoldStands
    DueLeaves
CHECK_DEADLOCK FALSE
