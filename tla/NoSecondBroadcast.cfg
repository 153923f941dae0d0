CONSTANTS
    b1 = b1
    b2 = b2
    m1 = m1
    m2 = m2
    Borrowers = {b1}
    Mandates = {m1, m2}
    Owner <- SameOwner
    NoMandate = noMandate
    Bids = {0, 1}
    MaxTries = 2
    MaxNonce = 3
SPECIFICATION Spec
PROPERTY NoSecondBroadcast
