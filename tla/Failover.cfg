CONSTANTS
    Callers = {c1, c2}
    Endpoints = 2
    MaxRetries = 2
SPECIFICATION FairSpec
INVARIANT TypeOK
PROPERTY OutageEnds
