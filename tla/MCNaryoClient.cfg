\* Two sessions that may come to share a configuration.
SPECIFICATION Spec
CONSTANTS
    t1 = t1
    t2 = t2
    x1 = x1
    Topics = {t1, t2}
    Contracts = {x1}
    Unset = Unset
    DefaultTopic = Unset
    AllowAll = TRUE
    AllEvents = AllEvents
    NoPlan = NoPlan
    Sessions = {s1, s2}
    Requested <- RequestedAny
    BroadcasterIds = {b1, b2}
    FilterIds = {f1, f2}
    ConfigIds = {c0, c1, c2}
    Leftover = {c0}
    None = None
    MaxStops = 1
    MaxFailures = 1
SYMMETRY Interchangeable
\* A stop locks the client for good.
CHECK_DEADLOCK FALSE
INVARIANTS
    TypeOK
    ScopeKept
    FiltersTracked
    OwnConfigurationKept
    AppendKeepsTopic
    ReportIsTrue
PROPERTIES
    ImplementsContract
