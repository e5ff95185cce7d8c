\* Two sessions, one exchange that fails.
SPECIFICATION Spec
CONSTANTS
    t1 = t1
    t2 = t2
    x1 = x1
    Topics = {t1, t2}
    Contracts = {x1}
    Unset = Unset
    DefaultTopic = Unset
    AllowAll = TRUE
    AllEvents = AllEvents
    NoPlan = NoPlan
    Sessions = {s1, s2}
    Requested <- RequestedTopic
    BroadcasterIds = {b1, b2}
    FilterIds = {f1, f2}
    ConfigIds = {c0, c1}
    Leftover = {c0}
    None = None
    MaxStops = 1
    MaxFailures = 1
CHECK_DEADLOCK FALSE
INVARIANT SharedConfigurationKept
