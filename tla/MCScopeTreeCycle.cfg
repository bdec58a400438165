SPECIFICATION TreeSpec
CONSTANTS
    Node = {a, b, c}
    NoParent = NoParent
    Absent = Absent
    MaxDepth = 3
    Retries = 1
    TreeTxs = {t1, t2}
    MaxTreeOps = 2
INVARIANTS Rooted
CHECK_DEADLOCK FALSE
