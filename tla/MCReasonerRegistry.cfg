SPECIFICATION MCSpec
CONSTANTS
    r1 = r1
    r2 = r2
    a = a
    b = b
    c = c
    w1 = w1
    w2 = w2
    None = None
    Reasoners = {r1, r2}
    Versions = {a, b, c}
    Writers = {w1, w2}
    Serves <- MCServes
    Disagree <- MCDisagree
    ById <- MCById
    Plugged <- MCPlugged
    Declared <- MCDeclared
    Puttable <- MCPuttable
    Assets <- MCAssets
    Levels = {1, 2}
    Corpora = {"corpus"}
    Settings <- MCSettings
    Unset = Unset
INVARIANTS
    ServedIsSnapshotted
    RestartIsAccepted
    RestartAdmits
    AuthorizedIsRendered
PROPERTIES
    BookSpec
