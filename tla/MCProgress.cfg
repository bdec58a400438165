SPECIFICATION ProgressSpec
CONSTANTS
    Binding = {b1, b2}
    Replica = {s1, s2}
    Reader = {q1}
    Batch = 2
    EntryTtl = 2
    MaxStay = 1
    MaxCrashes = 1
    Conn = {c1, c2}
    Request = {r1, r2}
    Nesting = {r1}
    Tenant = {t1}
    Platform = p
    MaxRetries = 1
    Run = {i1, i2}
    Emails = {e1, e2}
    Nobody = nobody
    Migrations = 1
    Seed = 1
    MaxInstallCrashes = 1
INVARIANTS
    ProgressTypeOK SweepSound NeverStrays CallbacksOfCommitted InstallSound
PROPERTIES
    WorkEnds
CHECK_DEADLOCK FALSE
