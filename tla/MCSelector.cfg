SPECIFICATION SelSpec
CONSTANTS
    c1 = c1
    c2 = c2
    c3 = c3
    m1 = m1
    m2 = m2
    t1 = t1
    t2 = t2
    p1 = p1
    NoTenant = NoTenant
    NoConn = NoConn
    Conns = {c1, c2, c3}
    Models = {m1, m2}
    Providers = {p1}
    Tenants = {t1, t2}
    ProviderOf <- MCProviderOf
    ConfigOrder <- MCConfigOrder
    IdOrder <- MCIdOrder
    AttrChoices <- MCAttrChoices
    SettingsSet <- MCSettings
    Errors <- MCErrors
    AllowLists <- MCAllowLists
    CounterMax = 1
    TickSteps <- MCTickSteps
    MaxNow = 4400
    Operated = {c1, c2}
INVARIANTS
    SelTypeOK
    CooldownBounded
    PinAgreesWithPool
    RoundRobinServesAll
PROPERTIES
    BackoffFallsOnlyByReset
    ModelFaultIsolated
    SuccessRestores
CHECK_DEADLOCK FALSE
