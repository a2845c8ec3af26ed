SPECIFICATION Spec
CONSTANTS
    Tabs = {t1, t2}
    Askers = {t1}
    MaxCalls = 1
    Reqs = {1, 2}
    None = none
    Tenants = {a, b}
    DevTenants = {b}
    Threshold = 2
    MaxFailures = 2
    MaxTime = 1
    MaxEvents = 1
INVARIANTS AnswersWereEarned TabShowsStored
PROPERTY ServedAgain
CHECK_DEADLOCK FALSE
