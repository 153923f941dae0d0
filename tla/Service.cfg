CONSTANTS
    Borrowers = {b1, b2}
    Clients = {c1}
    Worker = worker
    Mandates = {m1}
    NoMandate = noMandate
    NoJob = noJob
    Modes = {"assess", "live"}
    Thresholds = {1, 2}
    Cooldowns = {1}
SPECIFICATION FairSpec
INVARIANTS
    TypeOK
    LockIffSubmitting
    SubmittedHoldsLock
    FailureOverrunBounded
PROPERTIES
    NoAdmissionWhilePaused
    ImplementsSingleFlight
    LockReleased
    EveryBorrowerPolled
    PauseQuiesces
