SPECIFICATION CachesSpec
CONSTANTS
    Readers = {r1, r2}
    Writers = {w1, w2}
    TTL = 2
    MaxChanges = 2
    MaxFillTicks = 1
    Item = {folder, page}
    Top = top
    Key = {perm}
    folder = folder
    page = page
    perm = perm
    Viewer = {v1}
    Catalogs <- MCCatalogs
    NavTtl = 2
    MaxRead = 1
    MaxEdits = 1
    Tokens = {t1, t2}
    Lifetime = 3
    Leeway = 1
    DenylistFails = TRUE
    CacheForgets = TRUE
INVARIANTS
    CachesTypeOK CacheSound MenuSound DenialExact
PROPERTIES
    LossesAgeOut
CHECK_DEADLOCK FALSE
