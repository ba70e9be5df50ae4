SPECIFICATION MCSpec
CONSTANTS
    BatchRows <- MCBatchRows
    DailyRows <- MCDailyRows
    DaySize = 3
    ChunkSize = 2
    Directories <- MCDirectories
    OtherRegistration <- MCOtherRegistration
    MaxFaults = 2
    Installed <- MCInstalled
    Events <- MCEvents
    Datasets <- MCDatasets
    CoveredBy <- MCCoveredBy
    GateSays <- MCGateSays
    EVENT_LATENESS = 2
    SampleSize = 6
    MaxElsewhere = 1
INVARIANTS
    ReportIsTrue
    OperatorKnows
    OneDecisionPerRow
    RecordsKeepTheirAction
    OrderingsAreAlone
    
CHECK_DEADLOCK FALSE
