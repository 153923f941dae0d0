CONSTANTS
    Proposals = {p1, p2, p3}
    Requests = {r1, r2}
    Crews = {k1, k2}
    Mandates = {m1}
    NoMandate = noMandate
    NoProposal = noProposal
    MaxPerHour = 2
SYMMETRY Symmetry
SPECIFICATION Spec
INVARIANTS
    TypeOK
    ExecutedAtMostOnce
    RejectedNeverExecuted
    RateOvershootBounded
