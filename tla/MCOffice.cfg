SPECIFICATION Spec
CONSTANTS
    ine = ine
    otro = otro
    other1 = other1
    other2 = other2
    i1 = i1
    k1 = k1
    k2 = k2
    pdf = pdf
    a = a
    b = b
    orders = orders
    kyc = kyc
    Evidence = {ine, other1, other2}
    TipoOf <- Tipos
    FirstEvidence = {ine}
    CheckItem = {i1}
    Critical = {i1}
    Helper = {k1, k2}
    Extension = {pdf}
    NoFile = NoFile
    NoEvidence = NoEvidence
    MaxUploads = 2
    MaxChanges = 3
    MaxSpent = 4
    Member = {a, b}
    Anchor = a
    DocType = {ine, otro}
    Required = {ine}
    Otro = otro
    Size = {1, 2}
    MaxBytes = 2
    MaxActive = 1
    Clerk = {k1, k2}
    NoDraft = 0
    MaxDrafts = 2
INVARIANTS
    FulfillmentInv
    DossierInv
PROPERTIES
    ReadinessLands
    DossierFrozen
    DraftsGo
CHECK_DEADLOCK FALSE
