SPECIFICATION Spec
CONSTANTS
    Registrations <- MCRegistrations
    Evidence <- MCEvidence
    Outcomes <- MCOutcomes
    MaxMandatory = 1
    MaxAdvisory = 2
INVARIANTS
    FailClosed
    AddingAGateNeverRelaxes
    SkippingIsSafe
    ReproducesSinglePass
    CreditExplainsAction
    RecordedFloor
CHECK_DEADLOCK FALSE
