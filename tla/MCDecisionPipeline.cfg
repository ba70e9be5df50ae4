SPECIFICATION FairPipelineSpec
CONSTANTS
    rsn = rsn
    v1 = v1
    v2 = v2
    w1 = w1
    d1 = d1
    rulesGate = rulesGate
    rag = rag
    ghost = ghost
    None = None
    Reasoners = {rsn}
    Versions = {v1, v2}
    Writers = {w1}
    Decisions = {d1}
    Composed = {rulesGate, rag}
    Mandated = {rulesGate}
    Serves <- MCServes
    Disagree = {}
    Profile <- MCProfile
    Submissions <- MCSubmissions
    Deterministic = {rulesGate}
    Returned <- MCReturned
    Resolver <- MCResolver
    Answers <- MCAnswers
INVARIANTS
    ReplaysMatch
    GateSetCovered
    SubjectIsNamed
PROPERTIES
    BundlesImmutable
    AcceptedEnds
