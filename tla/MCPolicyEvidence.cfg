SPECIFICATION EvidenceSpec
CONSTANTS
    rules = rules
    codes = codes
    l1 = l1
    l2 = l2
    Nobody = Nobody
    NoHeading = NoHeading
    NoFilter = NoFilter
    Corpora <- MCCorpora
    Loaders = {l1, l2}
    Directories <- MCDirectories
    InitialCorpora <- MCInitial
    InitialIndexes = {"current", "stale"}
    MinWords = 3
    MaxWords = 5
    WordsOf <- MCWords
    MaxLoads = 2
    Quota = 2
    Binding <- MCBinding
    Queries <- MCQueries
    EscrowEnabled = TRUE
INVARIANTS
    StoresAgree
    CitationsAreProvable
    ChangesAreReal
CHECK_DEADLOCK FALSE
