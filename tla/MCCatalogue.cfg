SPECIFICATION Spec
CONSTANTS
    s1 = s1
    s2 = s2
    k1 = k1
    k2 = k2
    d1 = d1
    b1 = b1
    b2 = b2
    b3 = b3
    ana = ana
    eva = eva
    h1 = h1
    h2 = h2
    h3 = h3
    p1 = p1
    p2 = p2
    Open = Open
    NoCode = NoCode
    Unlimited = Unlimited
    PricedSpace = {s1, s2}
    Fecha = {1, 2}
    RuleContent <- Tariffs
    FallbackHourly <- Fallback
    Carts <- SmallCarts
    Clerk = {k1, k2}
    Patch <- Prices
    Code = {d1}
    Booking = {b1, b2, b3}
    Customer = {ana, eva}
    BookedBy <- Customers
    BookedCode <- OneCode
    CodeSubtotals = {499, 2999}
    EventSizes = {3}
    NewCodes <- Codes
    CodeChanges <- Changes
    Space = {h1, h2, h3}
    Curator = {k1, k2}
    Rule = {r1}
    Ruled = {h1}
    Person = {p1, p2}
    Tenant = {t1, t2}
    Email = {e1, e2}
    Registrar = {k1, k2}
    NoOne = NoOne
    MaxFields = 1
SYMMETRY Alike
INVARIANTS
    PricesAgree
    DiscountsHonoured
    DiscountsInv
    SpacesInv
    AccountsInv
PROPERTIES
    AdminRemains
CHECK_DEADLOCK FALSE
