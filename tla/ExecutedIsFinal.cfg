CONSTANTS
    Proposals = {p1, p2}
    Requests = {r1, r2}
    Crews = {k1, k2}
    Mandates = {m1, m2}
    NoMandate = noMandate
    NoProposal = noProposal
    MaxPerHour = 2
SPECIFICATION Spec
PROPERTY ExecutedIsFinal
