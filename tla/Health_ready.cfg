SPECIFICATION Spec
CONSTANTS
    Deps = {"postgresql", "redis"}
    Postgresql = "postgresql"
    Redis = "redis"
    ClaudeConfigured = TRUE
    StaleAfter = 0
    MaxLate = 1
    MaxFaults = 1
INVARIANTS
    TypeOK
    ScheduledFailureStays
PROPERTIES
    CoreIsUp
    ReadyIsEarned
