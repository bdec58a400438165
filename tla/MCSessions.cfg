SPECIFICATION SessionsSpec
CONSTANTS
    Reqs = {r1, r2, r3}
    Tabs = {a, b}
    Grace = 3
    Slack = 1
    MaxTokens = 3
    MaxDelay = 1
    Period = 4
    CacheFails = TRUE
    Abandons = TRUE
    Timeouts = TRUE
    Logins = {r1, r2, r3}
    Resets = {a, b}
    MaxFails = 2
    MaxSecret = 1
    Visitor = {a, b}
    NoVisitor = novisitor
    MaxSignIns = 3
SYMMETRY Symmetry
INVARIANTS
    SessionsTypeOK HonestSurvives SignedOutStays TabsConverge ShellSound NobodyLeftIn
CHECK_DEADLOCK FALSE
