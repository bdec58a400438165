SPECIFICATION AuditSpec
CONSTANTS
    Clerk = {c1, c2}
    AuditId = {1, 2, 3, 4}
    Millisecond = 2
    AuditEnd = 3
    ChunkSize = 2
    ExportMax = 3
    PageSize = 2
    Filters <- MCFilters
INVARIANTS
    ExportIsWhole
CHECK_DEADLOCK FALSE
