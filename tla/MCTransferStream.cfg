SPECIFICATION MCSpec
CONSTANTS
    Transfers <- MCTransfers
    Malformed <- MCMalformed
    WINDOW = 2
    ALLOWED_LATENESS = 1
    DEDUP_CAPACITY = 2
    HISTORY = 1
    Replayed <- MCReplayed
    Chunk = 2
    MaxDeliveries = 5
    MaxResets = 1
    MaxRestarts = 1
    Logins <- MCLogins
    Computers = {p, q}
    Windows = {1, 3}
    DAY = 3
    SPARSE = 2
    SPEED = 2
    MaxComputed = 3
INVARIANTS
    ScoredExactly
    DuplicatesAreDropped
    MissingIsStored
    FeaturesKnowThePast
CHECK_DEADLOCK FALSE
