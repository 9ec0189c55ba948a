SPECIFICATION Spec
SYMMETRY Symmetric
CONSTANTS
    r1 = r1
    r2 = r2
    c1 = c1
    c2 = c2
    c3 = c3
    m1 = m1
    m2 = m2
    m3 = m3
    t1 = t1
    t2 = t2
    p1 = p1
    p2 = p2
    k1 = k1
    s1 = s1
    a1 = a1
    loopRefresher = loopRefresher
    NoTenant = NoTenant
    NoConn = NoConn
    NoCombo = NoCombo
    NoKey = NoKey
    NoError = NoError
    NoCreds = NoCreds
    NoFlight = NoFlight
    Selector = Selector
    Refreshers = {Selector}
    Requests = {r1, r2}
    Conns = {c1, c2, c3}
    Models = {m1, m2, m3}
    Providers = {p1, p2}
    Executors = {p1}
    Tenants = {t1, t2}
    Combos = {k1}
    Sessions = {s1}
    ApiKeys = {a1}
    ProviderOf <- MCProviderOf
    ConfigOrder <- MCConfigOrder
    IdOrder <- MCConfigOrder
    AttrChoices <- SessionAccounts
    AllowLists <- MCAllowLists
    Plans <- SessionPlans
    SettingsSet <- SessionSettings
    Errors <- SessionErrors
    CounterMax = 1
    TickSteps = {}
    MaxNow = 1000
    Operated = {c1}
INVARIANTS
    DistinctAccounts
    BudgetRespected
    AllowListRespected
    TenantIsolated
    AffinityFollowsSuccess
CHECK_DEADLOCK FALSE
