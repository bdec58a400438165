SPECIFICATION Spec
CONSTANTS
    Subjects = {s1, s2}
    Roles = {admin}
    Perms = {p}
    Nodes = {n}
    Paths = {a, b}
    Txs = {t1, t2}
    Readers = {r1}
    Kinds = {"bind", "set"}
    MaxOps = 3
SYMMETRY Symmetry
INVARIANTS EnumerationNoRace
