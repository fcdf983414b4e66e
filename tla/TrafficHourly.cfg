SPECIFICATION Spec
CONSTANTS
    Targets <- TwoTargets
    Collectors = {c1}
    Viewers = {v1}
    Aggregators = {}
    HoursPerDay = 2
    DaysPerMonth = 2
    RetentionDays = 1
    DailyMinRetentionDays = 3
    RetentionMonths = 1
    MaxHour = 1
    MaxCarried = 2
    MaxRestarts = 1
    MaxToggles = 1
INVARIANTS
    TypeOK
    NothingInvented
    NothingLost
    ResetIsRestart
PROPERTIES
    UnmarkedIsPending
CHECK_DEADLOCK FALSE
