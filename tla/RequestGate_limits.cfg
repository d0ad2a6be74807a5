SPECIFICATION Spec
CONSTANTS
    Tasks = {t1, t2}
    NoTask = NoTask
    Requests = {r1, r2, r3}
    Credentials <- MCCredentials
    Routes <- MCRoutes
    SettingsChoices <- MCSettings
    default_org_id = "default"
    limit <- MClimit
    window <- MCwindow
    purge_limit = 1
    MaxClock = 4
    MaxDelay = 1
SYMMETRY Interchangeable
INVARIANTS
    TypeOK
    LocalMinuteLimit
    NoEarlyRefusal
    RetryReachesNextWindow
    ServedIsAttributable
PROPERTY QuotaKept
CHECK_DEADLOCK FALSE
