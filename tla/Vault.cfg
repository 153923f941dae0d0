CONSTANTS
    Mandates <- Presented
    NoTx = noTx
    BPS = 10
    WAD = 100
    Threshold = 8
    PremiumBps = 2
    Prices = {1, 2}
    MarketEdge = 1
    MaxAmount = 4
    MaxTime = 1
SPECIFICATION Spec
INVARIANTS
    TypeOK
    NonceSpentOnce
PROPERTIES
    NoWorse
    SpendBounded
