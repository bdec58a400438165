SPECIFICATION GrantsSpec
CONSTANTS
    Subjects = {s1, s2}
    Roles = {admin}
    Perms = {perm}
    Nodes = {node}
    Paths = {p1, p2}
    Txs = {t1, t2}
    Readers = {r1}
    Kinds = {"bind", "unbind", "set", "remove", "toggle", "deactivate", "reactivate", "app", "move"}
    MaxOps = 3
    Node = {s1, s2, t1, t2}
    NoParent = NoParent
    Absent = Absent
    MaxDepth = 4
    Retries = 1
    TreeTxs = {p1, p2}
    MaxTreeOps = 3
    ResolveTabs = {s1, s2}
    Person = {ann, ben}
    ann = ann
    ben = ben
    Keys = {all}
    Callers = {t1, t2}
    ResolveTtl = 2
    MaxGrantChanges = 1
    MaxFlight = 1
SYMMETRY Symmetry
INVARIANTS
    GrantsTypeOK Coherent OverprivilegedByAppOnly PathsConsistent ConsumerSound
PROPERTIES
    ImplementsForest
CHECK_DEADLOCK FALSE
