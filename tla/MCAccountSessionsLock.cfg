SPECIFICATION AccountSpec
CONSTANTS
    Logins = {l1, l2}
    Resets = {p1}
    MaxFails = 1
    MaxSecret = 1
SYMMETRY Symmetry
INVARIANTS NoneInWhenLockedOut
CHECK_DEADLOCK FALSE
