CONSTANTS
    Bps = 1000
    WadPerBp = 2
    WatchBand = 5
    TokenUnit = 1
    NoMandate = noMandate
    NoAsset = noAsset
    Infinite = infinite
    Nothing = nothing
    weth = weth
    wbtc = wbtc
    Limits <- MCLimits
    Mandates <- MCMandates
    Assessments <- MCAssessments
    Accounts <- MCAccounts
    Prices <- MCPrices
    SuggestedValues <- MCSuggestedValues
    Runs = {r1}
    Dismissals = {d1, d2}
    MaxRecent = 2
    MaxTime = 1
SPECIFICATION Spec
INVARIANTS
    TypeOK
    ProposalExecutable
    TerminalHonest
    TrailComplete
PROPERTY RunEnds
