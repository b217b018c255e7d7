SPECIFICATION SmallSpec
CONSTANTS
    a = a
    b = b
    c = c
    v = v
    f1 = f1
    f2 = f2
    hall = hall
    room = room
    other = other
    NoSlot = NoSlot
    Nobody = Nobody
    Request = {a, b, c, v}
    RetrySetting = 2
    Folio = {f1, f2}
    WSlot = {hall, room, other}
    WParent <- InHall
    Forms <- SmallForms
    FirstRows = {}
    MaxWizardFiles = 2
    RateLimit = 3
INVARIANTS
    PortalInv
    WizardInv
    FilesMatchQuotes
PROPERTIES
    EveryRequestSettles
CHECK_DEADLOCK FALSE
