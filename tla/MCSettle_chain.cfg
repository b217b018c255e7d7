SPECIFICATION SettlementSpec
CONSTANTS
    w1 = w1
    w2 = w2
    Worker = {w1}
    Scan = {"a"}
    Draft = {"CONSTANCIA_FISCAL", "INE_FRONT", "INE_BACK"}
    MaxVouchers = 2
INVARIANTS
    ChainIsLinear
CHECK_DEADLOCK FALSE
