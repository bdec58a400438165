SPECIFICATION AdministrationSpec
CONSTANTS
    Node = {root, a, b, c, stray}
    root = root
    stray = stray
    NoParent = noparent
    Absent = absent
    MaxDepth = 4
    Key = {key1, key2}
    Role = {clerk, chief}
    RoleKeys <- MCRoleKeys
    Routes <- MCRoutes
    MaxTreeEdits = 3
    key1 = key1
    key2 = key2
    clerk = clerk
    chief = chief
    Perm = {key1}
    NavNode = {one, two}
    NavRoot = top
    one = one
    two = two
    Upload = {a, b}
    Manifests <- MCManifests
    MaxCommits = 3
    Edit = {a, b, c}
    RolePerm = {key1, key2}
    StaffUpload = {a, b}
    Files <- MCFiles
    MaxRows = 3
    Address = {ann, ben}
    ann = ann
    ben = ben
    Unreadable = unreadable
    NewUser = {n1}
    Correction = {c1}
    NoOne = noone
    Clerk = {a, b}
    AuditId = {1, 2, 3, 4}
    Millisecond = 2
    AuditEnd = 2
    ChunkSize = 2
    ExportMax = 3
    PageSize = 2
    Filters <- MCFilters
    Row = {r1}
    Versions = {v1, v2}
    r1 = r1
    v1 = v1
    Documents <- MCDocuments
    Off = off
    Unparsed = unparsed
SYMMETRY Symmetry
INVARIANTS
    AdministrationTypeOK GuardDecides ManifestInForce UploadHonest RoleAsRecorded RosterIsTrue TrailReadable
PROPERTIES
    MenuChangeBumps
CHECK_DEADLOCK FALSE
