SPECIFICATION Spec
CONSTANTS
    hall = hall
    room1 = room1
    room2 = room2
    a = a
    b = b
    c = c
    d = d
    old = old
    None = None
    NoSpace = NoSpace
    Absent = Absent
    Space = {hall, room1, room2}
    Parent <- Hall
    Window <- OneWindow
    Bookable <- AllBookable
    Txn = {a, b}
    Reservation <- Ids
    Quote <- Ids
    Requests <- SameWindow
    Rank <- BySpaceThenStart
INVARIANTS
    OneWinner
