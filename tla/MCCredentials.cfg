SPECIFICATION CredentialsSpec
CONSTANTS
    Reqs = {r1, r2}
    Grace = 2
    Slack = 1
    MaxTokens = 3
    MaxDelay = 2
    CacheFails = TRUE
    Abandons = TRUE
    Key = {k1, k2}
    FirstKey = k1
    Stranger = x
    Instance = {i1, i2}
    Call = {c1, c2}
    JwksMaxAge = 2
    MinRefetch = 1
    VerifyLeeway = 1
    TokenTtl = 3
    MaxDeploy = 1
    MaxFetch = 1
    Forcing = TRUE
    Admin = {a1, a2}
    Exchange = {x1}
    ServiceTtl = 2
    MaxExchange = 1
    MaxSecrets = 1
    Account = {s1, s2}
    Ask = {k1, k2}
    MaxMints = 4
    Visit = {l1, l2}
    RateCap = 1
    WindowSeconds = 2
    MaxHalves = 5
    MaxArrivals = 4
SYMMETRY Symmetry
INVARIANTS
    CredentialsTypeOK Lineage DeniedIsRevoked KeysSound ExposureBounded TrailIsTrue SecretsShown RateSound
CHECK_DEADLOCK FALSE
