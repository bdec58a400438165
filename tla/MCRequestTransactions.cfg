SPECIFICATION TxSpec
CONSTANTS
    Conn = {c1, c2}
    Request = {r1, r2}
    Nesting = {r1, r2}
    Tenant = {t1}
    Platform = p
    MaxRetries = 0
PROPERTIES EveryRequestEnds
CHECK_DEADLOCK FALSE
