SPECIFICATION FairStreamSpec
CONSTANTS
    e1 = e1
    bad = bad
    e2 = e2
    c1 = c1
    c2 = c2
    Stream <- MCStream
    Malformed = bad
    Events = {e1, e2}
    Consumers = {c1, c2}
    TimestampOf <- MCTimestampOf
    Lateness = 0
    DedupTTL = 1
    BatchSize = 2
    MaxTime = 1
    MaxInterruptions = 1
INVARIANTS
    AtMostOnce
    NoSilentRejection
    OneLossPerFailure
PROPERTIES
    MessagesHandled
