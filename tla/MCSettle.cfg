SPECIFICATION SettlementSpec
CONSTANTS
    w1 = w1
    w2 = w2
    Worker = {w1, w2}
    Scan = {"a"}
    Draft = {"INE_FRONT", "INE_BACK"}
    MaxVouchers = 2
INVARIANTS
    SettlementInv
    ChainForksOnlyInRaces
PROPERTIES
    NoLateWrites
CHECK_DEADLOCK FALSE
