SPECIFICATION JournalSpec
CONSTANTS
    held = held
    blocked = blocked
    a1 = a1
    a2 = a2
    s1 = s1
    Decisions = {held}
    DecisionActionOf <- MCDecisionActionOf
    Requests = {a1, a2}
    Systems = {}
INVARIANTS
    ResolvedOnce
CHECK_DEADLOCK FALSE
