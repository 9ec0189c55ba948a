SPECIFICATION QuotaSpec
CONSTANTS
    Conns = {c1, c2, c3}
    NoConn = NoConn
    MAX_CONCURRENT = 2
    Volatile = {c1}
INVARIANTS
    QueueSound
PROPERTIES
    PoolImplemented
    BackoffRespected
    AskedIsServed
CHECK_DEADLOCK FALSE
