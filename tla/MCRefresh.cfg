SPECIFICATION RefreshSpec
CONSTANTS
    c1 = c1
    m1 = m1
    p1 = p1
    selector = selector
    background = background
    NoTenant = NoTenant
    NoConn = NoConn
    NoFlight = NoFlight
    Refreshers = {selector, background}
    Conns = {c1}
    Models = {m1}
    Providers = {p1}
    Tenants = {}
    ProviderOf <- MCProviderOf
    ConfigOrder <- MCOrder
    IdOrder <- MCOrder
    AttrChoices <- MCAttrChoices
    SettingsSet <- MCSettings
    Errors <- MCErrors
    AllowLists = {{}}
    CounterMax = 1
    TickSteps = {1000}
    MaxNow = 2000
    Operated = {c1}
INVARIANTS
    RefreshTypeOK
    CooldownBounded
    CopiesBounded
    HealthNotTorn
CHECK_DEADLOCK FALSE
