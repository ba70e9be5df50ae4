SPECIFICATION JournalSpec
CONSTANTS
    held = held
    blocked = blocked
    a1 = a1
    a2 = a2
    s1 = s1
    Decisions = {held, blocked}
    DecisionActionOf <- MCDecisionActionOf
    Requests = {a1, a2}
    Systems = {s1}
INVARIANTS
    ChainHasNoGap
    ReceiptsStand
PROPERTIES
    RealizedOnce
CHECK_DEADLOCK FALSE
