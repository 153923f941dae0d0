CONSTANTS
    weth = weth
    wsteth = wsteth
    BPS = 4
    BundledBps = 1
    PremiumBps = 1
    BumpBps = 1
    GasCost = 1
    Scale = 2
    Assets = {weth, wsteth}
    LT <- AssetLT
    Bonus <- AssetBonus
    Candidates <- TwoAssets
    TargetBase = 5
    TargetMax = 6
    Shifts = {0, 3}
    Values = {0, 3, 5, 8}
    Thresholds = {3}
    Prices = {0, 1, 2}
    Quotes = {0, 5, 6, 9}
    BumpLimits = {0, 2}
    NoChoice = noChoice
SPECIFICATION FairSpec
INVARIANTS
    TypeOK
    SizeIsLeast
    RepayWithinDebt
    CheapestWithinABp
    QuotedForRepay
PROPERTY PlanningEnds
