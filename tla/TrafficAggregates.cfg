SPECIFICATION Spec
CONSTANTS
    Targets <- OneTarget
    Collectors = {c1}
    Viewers = {}
    Aggregators = {a1}
    HoursPerDay = 1
    DaysPerMonth = 2
    RetentionDays = 1
    DailyMinRetentionDays = 3
    RetentionMonths = 1
    MaxHour = 4
    MaxCarried = 2
    MaxRestarts = 0
    MaxToggles = 0
INVARIANTS
    RecordsNeverInvent
PROPERTIES
    AggregatesGrow
    CleanupKeepsSources
CHECK_DEADLOCK FALSE
